---- MODULE Spec2Model ----
(***************************************************************************)
(* The client-side wishlist engine of the storefront theme.                *)
(*                                                                         *)
(* Source: src/assets/wishlist.js.  The file holds two revisions of the    *)
(* controller one after the other; the model follows the later one (the   *)
(* class that starts at line 818), which is the one bound to              *)
(* window.wishlist when the script has run and the one that owns the      *)
(* Product Data Resolver, the Variant Matcher and the Render Pipeline.    *)
(*                                                                         *)
(* Two browser tabs of one origin run the controller against one shared   *)
(* localStorage slot.  Every handler of the controller is one action; the *)
(* only asynchrony is the catalog fetch of a render pass, whose           *)
(* completion is an action of its own.                                     *)
(***************************************************************************)
EXTENDS Integers, Sequences, FiniteSets, TLC

(***************************************************************************)
(* Bounds of the model.                                                    *)
(***************************************************************************)
MaxItems == 3   \* the longest list a tab holds
MaxPasses == 1  \* the render passes of a tab that await fetches at one time
MaxQueue == 1   \* the storage events on their way to one tab
MaxClock == 0   \* the latest instant of the clock
MaxTrail == 2   \* the calls of a scenario
MaxVariants == 3 \* the variants of a product a picker is tried on

Tabs == {"A", "B"}

(***************************************************************************)
(* JavaScript values.  A primitive is a record of its type tag t and its   *)
(* text v, a sequence of tokens: String(x) keeps the text and changes the  *)
(* tag, so 1 and "1" are different values with the same string form.       *)
(***************************************************************************)
Str(toks) == [t |-> "string", v |-> toks]
Num(tok) == [t |-> "number", v |-> <<tok>>]
Bool(b) == [t |-> "boolean", v |-> IF b THEN <<"true">> ELSE <<"false">>]
Undefined == [t |-> "undefined", v |-> <<"undefined">>]
Null == [t |-> "null", v |-> <<"null">>]
Obj == [t |-> "object", v |-> <<"[object Object]">>]
EmptyStr == Str(<<>>)

JsString(x) == Str(x.v)

Truthy(x) ==
  CASE x.t = "string" -> x.v # <<>>
    [] x.t = "number" -> x.v \notin {<<"0">>, <<"NaN">>}
    [] x.t = "boolean" -> x.v = <<"true">>
    [] x.t = "object" -> TRUE
    [] OTHER -> FALSE

\* a ?? b
Nullish(x) == x.t \in {"undefined", "null"}

(***************************************************************************)
(* WishlistItem records and the JSON payload of the storage slot.          *)
(***************************************************************************)
ItemFields == {"id", "title", "image", "url", "price", "variant_id", "available", "handle", "added_at"}

NoFields == [f \in ItemFields |-> Undefined]

\* One entry of a stored JSON array.  k is the JSON type of the entry; f holds
\* the properties of an object entry (Undefined: the key is absent).
ObjectEntry(fields) == [k |-> "object", f |-> fields]
OtherEntry(kind) == [k |-> kind, f |-> NoFields]

\* The raw value of the slot.  k: "absent" (getItem returns null), "empty"
\* (the empty string), "garbage" (text that is no JSON), "securityError"
\* (reading the slot throws), "scalar" (JSON that is no array), "array".
Payload(kind, entries) == [k |-> kind, arr |-> entries]
AbsentPayload == Payload("absent", <<>>)

\* JSON.stringify of one property value: NaN becomes null, undefined drops the key.
StringifyValue(x) == IF x.t = "number" /\ x.v = <<"NaN">> THEN Null ELSE x

JsonStringify(list) ==
  Payload("array", [i \in 1..Len(list) |->
     ObjectEntry([f \in ItemFields |-> StringifyValue(list[i][f])])])

\* rawItem && typeof rawItem === 'object'
KeptOnLoad(entry) == entry.k \in {"object", "array"}

\* the mapping of loadFromStorage that accepts only the string 'true'
NormalizeEntryStringFlag(entry) ==
  LET item == entry.f IN
  [ id |-> item.id,
    title |-> IF Nullish(item.title) THEN EmptyStr ELSE JsString(item.title),
    image |-> IF Nullish(item.image) THEN EmptyStr ELSE JsString(item.image),
    url |-> IF Nullish(item.url) THEN EmptyStr ELSE JsString(item.url),
    price |-> IF Nullish(item.price) THEN EmptyStr ELSE JsString(item.price),
    variant_id |-> item.variant_id,
    available |-> IF item.available = Undefined
                    THEN Bool(TRUE)
                    ELSE Bool(item.available = Str(<<"true">>)),
    handle |-> IF item.handle.t = "string" THEN item.handle ELSE EmptyStr,
    added_at |-> item.added_at ]

NormalizeEntry(entry) ==
  LET item == entry.f IN
  [ id |-> item.id,
    title |-> IF Nullish(item.title) THEN EmptyStr ELSE JsString(item.title),
    image |-> IF Nullish(item.image) THEN EmptyStr ELSE JsString(item.image),
    url |-> IF Nullish(item.url) THEN EmptyStr ELSE JsString(item.url),
    price |-> IF Nullish(item.price) THEN EmptyStr ELSE JsString(item.price),
    variant_id |-> item.variant_id,
    available |-> IF item.available = Undefined
                    THEN Bool(TRUE)
                    ELSE Bool(item.available = Bool(TRUE) \/ item.available = Str(<<"true">>)),
    handle |-> IF item.handle.t = "string" THEN item.handle ELSE EmptyStr,
    added_at |-> item.added_at ]

RECURSIVE FilterMap(_)
FilterMap(entries) ==
  IF entries = <<>> THEN <<>>
  ELSE IF KeptOnLoad(Head(entries))
    THEN <<NormalizeEntry(Head(entries))>> \o FilterMap(Tail(entries))
    ELSE FilterMap(Tail(entries))

\* The body of the try block of loadFromStorage: threw is TRUE when
\* localStorage.getItem or JSON.parse throws.
LoadTry(payload) ==
  CASE payload.k \in {"securityError", "garbage"} -> [threw |-> TRUE, items |-> <<>>]
    [] payload.k \in {"absent", "empty", "scalar"} -> [threw |-> FALSE, items |-> <<>>]
    [] OTHER -> [threw |-> FALSE, items |-> FilterMap(payload.arr)]

\* loadFromStorage without its catch clause
loadFromStorageUncaught(payload) == LoadTry(payload)

\* loadFromStorage: the catch clause turns every exception into the empty list.
loadFromStorage(payload) ==
  LET r == LoadTry(payload) IN
  IF r.threw THEN [threw |-> FALSE, items |-> <<>>] ELSE r

(***************************************************************************)
(* Catalog data, as normalizeProductData hands it on, and the products     *)
(* whose wishlist buttons are on the page.                                 *)
(***************************************************************************)
Handles == {"alpha"}

Variant(id, avail, cents, values, img) ==
  [present |-> TRUE, id |-> id, available |-> avail, price |-> cents,
   options |-> values, featuredImage |-> img]
NoVariant == [present |-> FALSE, id |-> Undefined, available |-> FALSE, price |-> "",
              options |-> <<>>, featuredImage |-> <<>>]

ProductData(h, opts, vars, img) ==
  [present |-> TRUE, handle |-> Str(<<h>>), url |-> Str(<<"/products/", h>>),
   options |-> opts, variants |-> vars, featuredImage |-> img,
   featuredMedia |-> <<>>, images |-> <<>>, variantMedia |-> <<>>]
NoProductData ==
  [present |-> FALSE, handle |-> EmptyStr, url |-> Undefined,
   options |-> <<>>, variants |-> <<>>, featuredImage |-> <<>>,
   featuredMedia |-> <<>>, images |-> <<>>, variantMedia |-> <<>>]

\* The catalog holds one product; every other handle answers 404.  The
\* product has two options and no variant for the combination S/Blue; its
\* variant M/Red is sold out and its variant M/Blue has an image of its own.
Catalog(h) ==
  ProductData(h,
    <<[name |-> "Size", values |-> <<"S", "M">>],
      [name |-> "Color", values |-> <<"Red", "Blue">>]>>,
    <<Variant(Num("10"), TRUE, "1000", <<"S", "Red">>, <<>>),
      Variant(Num("11"), FALSE, "1200", <<"M", "Red">>, <<>>),
      Variant(Num("12"), TRUE, "1100", <<"M", "Blue">>, <<"//", "cdn/alpha-blue.jpg">>)>>,
    <<"//", "cdn/alpha.jpg">>)

\* The data-* attributes of a wishlist button, as handleWishlistButtonClick reads them.
Product(id, title, h, handleAttr, variantId) ==
  [ id |-> id, title |-> Str(<<title>>), image |-> Str(<<"//", "cdn/" \o h \o ".jpg">>),
    url |-> Str(<<"/products/", h>>), price |-> Str(<<"$", "list">>),
    variant_id |-> Str(<<variantId>>), available |-> Bool(TRUE), handle |-> handleAttr ]

P1 == Product(Str(<<"1">>), "Alpha", "alpha", Str(<<"alpha">>), "10")
P2 == Product(Str(<<"2">>), "Beta", "beta", EmptyStr, "20")
\* The same product as P1, handed to the public methods with a numeric id.
P1n == Product(Num("1"), "Alpha", "alpha", Str(<<"alpha">>), "10")
\* A product object whose id is the number 0.
P0 == Product(Num("0"), "Zero", "zero", Str(<<"zero">>), "30")

\* The catalog's data of a product after the shop has changed the price of
\* its first variant.
Repriced(productData) == [productData EXCEPT !.variants[1].price = "900"]

\* Two product objects with the id 0 for two variants of the catalog's product.
P0a == Product(Num("0"), "Alpha", "alpha", Str(<<"alpha">>), "10")
P0b == Product(Num("0"), "Alpha", "alpha", Str(<<"alpha">>), "12")

\* Product objects without a handle and with a URL that names no product.
Bare(id) == [Product(id, "Bare", "bare", EmptyStr, "40") EXCEPT !.url = Str(<<"/collections/", "all">>)]
P0x == Bare(Num("0"))
\* A product object for a variant of the catalog's product, with a URL that
\* carries a query of its own.
P2q ==
  [Product(Str(<<"2">>), "Alpha", "alpha", Str(<<"alpha">>), "12")
     EXCEPT !.url = Str(<<"/products/", "alpha", "?", "ref=", "mail">>)]
P2x == Bare(Str(<<"2">>))

ButtonProducts == {P1, P2}
ApiProducts == {P1, P2, P1n, P0}
ApiIds == {P.id : P \in ApiProducts}
ButtonIds == {<<"1">>, <<"2">>}

(***************************************************************************)
(* URLs and money.  A URL is a token sequence: an optional origin token,   *)
(* path tokens, and after the token "?" the query.                         *)
(***************************************************************************)
Origin == "https://shop.example"

\* s.split('?')[0]
SplitQuery(toks) ==
  IF \E i \in 1..Len(toks) : toks[i] = "?"
    THEN SubSeq(toks, 1, (CHOOSE i \in 1..Len(toks) :
                            toks[i] = "?" /\ \A j \in 1..(i-1) : toks[j] # "?") - 1)
    ELSE toks

\* new URL(path, origin).pathname
Pathname(toks) == IF toks # <<>> /\ Head(toks) = Origin THEN Tail(toks) ELSE toks

buildVariantUrl(baseUrl, variantId) ==
  IF ~Truthy(baseUrl) THEN EmptyStr
  ELSE LET cleanBase == SplitQuery(baseUrl.v) IN
       IF ~Truthy(variantId) \/ cleanBase = <<>>
         THEN Str(cleanBase)
         ELSE Str(Pathname(cleanBase) \o <<"?", "variant=">> \o variantId.v)

\* The collaborator's money format, applied to integer minor units.
formatMoney(cents) == IF cents = "" THEN EmptyStr ELSE Str(<<"$", cents, "/100">>)

HasWidth(toks) == \E i \in 1..Len(toks) : toks[i] = "width="

\* normalizeImageUrl(src, width): the absolute URL, with the parameter width
\* added when the URL has none.
normalizeImageUrlTo(src, width) ==
  IF src.t # "string" \/ src.v = <<>> THEN EmptyStr
  ELSE LET abs == IF Head(src.v) = "//" THEN <<"https:">> \o src.v
                  ELSE IF Head(src.v) = "https:" THEN src.v
                  ELSE IF Head(src.v) = Origin THEN src.v
                  ELSE <<Origin>> \o src.v
       IN IF HasWidth(abs) THEN Str(abs)
          ELSE IF \E i \in 1..Len(abs) : abs[i] = "?"
            THEN Str(abs \o <<"&", "width=", width>>)
            ELSE Str(abs \o <<"?", "width=", width>>)

\* normalizeImageUrl(src) with the default width
normalizeImageUrl(src) == normalizeImageUrlTo(src, "600")

(***************************************************************************)
(* The gallery.  An image source is a URL (a token sequence, <<>> where    *)
(* there is none); variantMedia is the list of the entries of the object   *)
(* in the order of Object.entries.                                         *)
(***************************************************************************)
\* An entry of the gallery list.
GalleryImage(src, isVariant, isSelectedVariant, variantId) ==
  [src |-> src, isVariant |-> isVariant, isSelectedVariant |-> isSelectedVariant,
   variantId |-> variantId]

\* normalized.split('?')[0]
ImageKey(src) == SplitQuery(src)

\* a pushImage that keeps every image
pushImageAll(images, src, meta) ==
  IF src = <<>> THEN images
  ELSE Append(images, [meta EXCEPT !.src = normalizeImageUrlTo(Str(src), "832").v])

\* pushImage: the image is added unless it has no source or its key was seen.
pushImage(images, src, meta) ==
  IF src = <<>> \/ normalizeImageUrlTo(Str(src), "832").v = <<>> THEN images
  ELSE IF \E n \in 1..Len(images) :
            ImageKey(images[n].src) = ImageKey(normalizeImageUrlTo(Str(src), "832").v)
    THEN images
  ELSE Append(images, [meta EXCEPT !.src = normalizeImageUrlTo(Str(src), "832").v])

\* productData.variantMedia[variantId]
MediaOf(variantMedia, variantId) ==
  IF \E n \in 1..Len(variantMedia) : variantMedia[n].variantId = variantId
    THEN variantMedia[CHOOSE n \in 1..Len(variantMedia) :
                        variantMedia[n].variantId = variantId].src
    ELSE <<>>

\* productData.images.find(...): the first image with a source
FirstImage(srcs) ==
  IF \E n \in 1..Len(srcs) : srcs[n] # <<>>
    THEN srcs[CHOOSE n \in 1..Len(srcs) : srcs[n] # <<>> /\ \A m \in 1..(n-1) : srcs[m] = <<>>]
    ELSE <<>>

\* the image of the product, whatever the variant
resolveProductImageOfProduct(productData, variant, fallback) ==
  IF productData.present /\ productData.featuredMedia # <<>>
    THEN normalizeImageUrl(Str(productData.featuredMedia))
  ELSE IF productData.present /\ productData.featuredImage # <<>>
    THEN normalizeImageUrl(Str(productData.featuredImage))
  ELSE IF productData.present /\ FirstImage(productData.images) # <<>>
    THEN normalizeImageUrl(Str(FirstImage(productData.images)))
  ELSE IF fallback.t = "string" /\ fallback.v # <<>>
    THEN normalizeImageUrl(fallback)
  ELSE EmptyStr

\* resolveProductImage: the image of the variant, the media of the variant,
\* the featured media, the featured image, the first image of the product,
\* the fallback.
resolveProductImage(productData, variant, fallback) ==
  IF variant.present /\ variant.featuredImage # <<>>
    THEN normalizeImageUrl(Str(variant.featuredImage))
  ELSE IF variant.present /\ productData.present
          /\ MediaOf(productData.variantMedia, JsString(variant.id).v) # <<>>
    THEN normalizeImageUrl(Str(MediaOf(productData.variantMedia, JsString(variant.id).v)))
  ELSE IF productData.present /\ productData.featuredMedia # <<>>
    THEN normalizeImageUrl(Str(productData.featuredMedia))
  ELSE IF productData.present /\ productData.featuredImage # <<>>
    THEN normalizeImageUrl(Str(productData.featuredImage))
  ELSE IF productData.present /\ FirstImage(productData.images) # <<>>
    THEN normalizeImageUrl(Str(FirstImage(productData.images)))
  ELSE IF fallback.t = "string" /\ fallback.v # <<>>
    THEN normalizeImageUrl(fallback)
  ELSE EmptyStr

\* selectedVariantImage of collectWishlistGalleryImages
SelectedVariantImage(productData, selectedVariant) ==
  IF ~selectedVariant.present THEN <<>>
  ELSE IF selectedVariant.featuredImage # <<>> THEN selectedVariant.featuredImage
  ELSE IF productData.present
    THEN MediaOf(productData.variantMedia, JsString(selectedVariant.id).v)
  ELSE <<>>

\* Object.entries(productData.variantMedia).forEach, from entry n on
RECURSIVE PushMedia(_, _, _, _, _)
PushMedia(images, variantMedia, n, selectedVariantId, selectedVariantImage) ==
  IF n > Len(variantMedia) THEN images
  ELSE PushMedia(
         IF variantMedia[n].variantId = selectedVariantId /\ selectedVariantImage # <<>>
           THEN images
           ELSE pushImage(images, variantMedia[n].src,
                          GalleryImage(<<>>, TRUE, variantMedia[n].variantId = selectedVariantId,
                                       variantMedia[n].variantId)),
         variantMedia, n + 1, selectedVariantId, selectedVariantImage)

\* productData.images.forEach, from image n on
RECURSIVE PushImages(_, _, _)
PushImages(images, srcs, n) ==
  IF n > Len(srcs) THEN images
  ELSE PushImages(pushImage(images, srcs[n], GalleryImage(<<>>, FALSE, FALSE, <<>>)),
                  srcs, n + 1)

\* images of the product with the featured image before the featured media
ProductImagesImageFirst(images, productData, selectedVariantId, selectedVariantImage) ==
  IF ~productData.present THEN images
  ELSE PushImages(
         pushImage(
           pushImage(
             PushMedia(images, productData.variantMedia, 1, selectedVariantId,
                       selectedVariantImage),
             productData.featuredImage, GalleryImage(<<>>, FALSE, FALSE, <<>>)),
           productData.featuredMedia, GalleryImage(<<>>, FALSE, FALSE, <<>>)),
         productData.images, 1)

\* The images of the variants and of the product, after the image of the
\* selected variant.
ProductImages(images, productData, selectedVariantId, selectedVariantImage) ==
  IF ~productData.present THEN images
  ELSE PushImages(
         pushImage(
           pushImage(
             PushMedia(images, productData.variantMedia, 1, selectedVariantId,
                       selectedVariantImage),
             productData.featuredMedia, GalleryImage(<<>>, FALSE, FALSE, <<>>)),
           productData.featuredImage, GalleryImage(<<>>, FALSE, FALSE, <<>>)),
         productData.images, 1)

\* images.length === 0 && fallbackImage
WithFallback(images, fallbackImage) ==
  IF images = <<>> /\ Truthy(fallbackImage)
    THEN pushImage(images, IF fallbackImage.t = "string" THEN fallbackImage.v ELSE <<>>,
                   GalleryImage(<<>>, FALSE, TRUE, <<>>))
    ELSE images

CollectedFrom(productData, selectedVariantId, selectedVariantImage, fallbackImage) ==
  WithFallback(
    ProductImages(IF selectedVariantImage # <<>>
                    THEN pushImage(<<>>, selectedVariantImage,
                                   GalleryImage(<<>>, TRUE, TRUE, selectedVariantId))
                    ELSE <<>>,
                  productData, selectedVariantId, selectedVariantImage),
    fallbackImage)

collectWishlistGalleryImages(productData, selectedVariant, fallbackImage) ==
  CollectedFrom(productData,
                IF selectedVariant.present THEN JsString(selectedVariant.id).v ELSE <<>>,
                SelectedVariantImage(productData, selectedVariant), fallbackImage)

\* A slide of the gallery markup.
Slide(image, index) ==
  [src |-> image.src, primary |-> index = 1,
   variantId |-> IF image.isVariant THEN image.variantId ELSE <<>>]

\* slides for all the gallery images when the flag is set
SlidesOfAll(galleryImages, fallbackImage, showSecondImageOnHover) ==
  IF galleryImages = <<>>
    THEN IF fallbackImage.t = "string" /\ fallbackImage.v # <<>>
           THEN <<[src |-> normalizeImageUrlTo(fallbackImage, "832").v, primary |-> FALSE,
                   variantId |-> <<>>]>>
           ELSE <<>>
    ELSE SubSeq([index \in 1..Len(galleryImages) |-> Slide(galleryImages[index], index)],
                1, IF showSecondImageOnHover THEN Len(galleryImages) ELSE 1)

\* The slides of buildWishlistGalleryHtml for the gallery images: without
\* images, one slide of the fallback image when there is one.
SlidesOf(galleryImages, fallbackImage, showSecondImageOnHover) ==
  IF galleryImages = <<>>
    THEN IF fallbackImage.t = "string" /\ fallbackImage.v # <<>>
           THEN <<[src |-> normalizeImageUrlTo(fallbackImage, "832").v, primary |-> FALSE,
                   variantId |-> <<>>]>>
           ELSE <<>>
    ELSE SubSeq([index \in 1..Len(galleryImages) |-> Slide(galleryImages[index], index)],
                1, IF showSecondImageOnHover /\ Len(galleryImages) > 1 THEN 2 ELSE 1)

\* buildWishlistGalleryHtml: the link and the slides of the markup.
buildWishlistGalleryHtml(productData, selectedVariant, context, showSecondImageOnHover) ==
  [ href |-> IF Truthy(context.url) THEN context.url.v ELSE <<"#">>,
    slides |-> SlidesOf(collectWishlistGalleryImages(productData, selectedVariant,
                                                     context.fallbackImage),
                        context.fallbackImage, showSecondImageOnHover) ]

\* getProductHandle: the stored handle, else the path segment after "products".
getProductHandle(item) ==
  IF Truthy(item.handle) THEN item.handle
  ELSE IF item.url.t = "string"
          /\ \E i \in 1..(Len(SplitQuery(item.url.v)) - 1) : SplitQuery(item.url.v)[i] = "/products/"
    THEN LET p == SplitQuery(item.url.v)
             i == CHOOSE k \in 1..(Len(p) - 1) :
                    p[k] = "/products/" /\ \A j \in 1..(k-1) : p[j] # "/products/"
         IN Str(<<p[i + 1]>>)
  ELSE Undefined

(***************************************************************************)
(* In-place update of a saved item.                                        *)
(***************************************************************************)
UpdatedFields == {"id", "title", "image", "url", "price", "variant_id", "available", "handle"}

\* an update that reports a change whatever it wrote
updateWishlistItemDataAlways(item, updates) ==
  LET touched == {f \in UpdatedFields : updates[f] # Undefined /\ updates[f] # item[f]} IN
  [ item |-> [f \in ItemFields |-> IF f \in touched THEN updates[f] ELSE item[f]],
    changed |-> TRUE ]

\* updateWishlistItemData: a field is written when the update is defined and
\* differs (!==) from the stored value.
updateWishlistItemData(item, updates) ==
  LET touched == {f \in UpdatedFields : updates[f] # Undefined /\ updates[f] # item[f]} IN
  [ item |-> [f \in ItemFields |-> IF f \in touched THEN updates[f] ELSE item[f]],
    changed |-> touched # {} ]

NoUpdates == [f \in UpdatedFields |-> Undefined]

(***************************************************************************)
(* State.                                                                  *)
(***************************************************************************)
VARIABLES
  items,               \* this.items of each tab: a list of object references
  heap,                \* the WishlistItem objects of each tab, by reference
  productCache,        \* this.productCache: handle -> ProductData
  wishlistProductData, \* this.wishlistProductData: String(id) -> state
  passes,              \* the render passes of each tab that await fetches
  container,           \* #wishlist-items: the markup of the saved-items view
  emptyHidden,         \* #wishlist-empty carries the class is-hidden
  counter,             \* the number the wishlist counters show
  buttons,             \* the wishlist buttons that carry the class is-added
  storage,             \* the localStorage slot shopify-wishlist
  queue,               \* storage events on their way to each tab
  page,                \* what each tab shows: "wishlist" (the page with the
                       \* saved-items view), "other", or "closed"
  last,                \* the handler that ran last, and what it did
  hist,                \* in the specifications that follow a scenario: the list
                       \* tab A started with and the calls made since
  trial                \* in the specification of the picker: the variants and
                       \* the selects a picker function is called with, and
                       \* what it returned

vars == <<items, heap, productCache, wishlistProductData, passes, container,
          emptyHidden, counter, buttons, storage, queue, page, last, hist, trial>>

\* What a handler meets: setItem works ("ok") or throws ("quota"); the clock.
Modes == {"ok", "quota"}
Timestamps == 0..MaxClock

MaxRefs == MaxItems * (MaxPasses + 2)
Refs == 1..MaxRefs

storageKey == "shopify-wishlist"
OtherKey == "some-other-key"

BlankItem == NoFields

NoState == [present |-> FALSE, baseUrl |-> EmptyStr, handle |-> EmptyStr, variantId |-> Undefined]

\* The view a handler of tab t has of the state; the handler's operators
\* transform it and Commit writes it back.
View(t, mode, ts) ==
  [ items |-> items[t], heap |-> heap[t], cache |-> productCache[t],
    pstate |-> wishlistProductData[t], passes |-> passes[t],
    container |-> container[t], emptyHidden |-> emptyHidden[t],
    counter |-> counter[t], buttons |-> buttons[t],
    storage |-> storage, mode |-> mode, now |-> ts, view |-> page[t] = "wishlist",
    events |-> 0, writes |-> 0, failed |-> FALSE, threw |-> FALSE,
    renders |-> 0, ret |-> FALSE ]

\* getItems, by value
Values(W) == [i \in 1..Len(W.items) |-> W.heap[W.items[i]]]

getCount(W) == Len(W.items)

RefsOfPasses(ps) ==
  UNION {{ps[p].snap[i] : i \in 1..Len(ps[p].snap)} : p \in 1..Len(ps)}

UsedRefs(W) ==
  {W.items[i] : i \in 1..Len(W.items)}
    \cup RefsOfPasses(W.passes)
    \cup ({W.container[i].ref : i \in 1..Len(W.container)} \ {0})
    \cup UNION {{W.container[i].refs[k] : k \in 1..Len(W.container[i].refs)} :
                 i \in 1..Len(W.container)}

FreeRefs(W) == Refs \ UsedRefs(W)

Min(S) == CHOOSE x \in S : \A y \in S : x <= y

RECURSIVE FirstRefs(_, _)
FirstRefs(S, n) ==
  IF n = 0 \/ S = {} THEN <<>> ELSE <<Min(S)>> \o FirstRefs(S \ {Min(S)}, n - 1)

(***************************************************************************)
(* Persistent Store.                                                       *)
(***************************************************************************)
contains(W, productId) ==
  /\ Truthy(productId)
  /\ \E i \in 1..Len(W.items) : JsString(W.heap[W.items[i]].id) = JsString(productId)

updateWishlistCounters(W) == [W EXCEPT !.counter = getCount(W)]

updateWishlistButtons(W) ==
  [W EXCEPT !.buttons = {b \in ButtonIds : contains(W, Str(b))}]

\* the try block of saveToStorage without the updates that follow setItem
SaveTryWriteOnly(W) ==
  IF W.mode = "ok" /\ W.storage.k # "securityError"
    THEN [W EXCEPT !.storage = JsonStringify(Values(W)),
                   !.events = @ + (IF JsonStringify(Values(W)) # W.storage THEN 1 ELSE 0),
                   !.writes = @ + 1]
    ELSE [W EXCEPT !.writes = @ + 1, !.failed = TRUE, !.threw = TRUE]

\* The body of the try block of saveToStorage: setItem throws when the quota
\* is exceeded or storage is disabled, and the rest of the block is skipped.
SaveTry(W) ==
  IF W.mode = "ok" /\ W.storage.k # "securityError"
    THEN updateWishlistButtons(updateWishlistCounters(
           [W EXCEPT !.storage = JsonStringify(Values(W)),
                     !.events = @ + (IF JsonStringify(Values(W)) # W.storage THEN 1 ELSE 0),
                     !.writes = @ + 1]))
    ELSE [W EXCEPT !.writes = @ + 1, !.failed = TRUE, !.threw = TRUE]

\* saveToStorage without its catch clause
Rethrown(W, r) == r

\* saveToStorage: the catch clause logs the exception and drops it.
Caught(W, r) == IF r.threw /\ ~W.threw THEN [r EXCEPT !.threw = FALSE] ELSE r

saveToStorage(W) == Caught(W, SaveTry(W))

Timestamp(W) == Str(<<"T", ToString(W.now)>>)

NewItem(W, product) ==
  [ id |-> product.id, title |-> product.title, image |-> product.image,
    url |-> product.url, price |-> product.price, variant_id |-> product.variant_id,
    available |-> product.available,
    handle |-> IF Truthy(product.handle) THEN product.handle ELSE EmptyStr,
    added_at |-> Timestamp(W) ]

\* add that puts the new item in front
addFirst(W, product) ==
  IF ~contains(W, product.id)
    THEN LET r == Min(FreeRefs(W))
             W1 == [W EXCEPT !.items = <<r>> \o @, !.heap[r] = NewItem(W, product)]
         IN [saveToStorage(W1) EXCEPT !.ret = TRUE]
    ELSE [W EXCEPT !.ret = FALSE]

add(W, product) ==
  IF ~contains(W, product.id)
    THEN LET r == Min(FreeRefs(W))
             W1 == [W EXCEPT !.items = Append(@, r), !.heap[r] = NewItem(W, product)]
         IN [saveToStorage(W1) EXCEPT !.ret = TRUE]
    ELSE [W EXCEPT !.ret = FALSE]

\* the filter of remove comparing the ids themselves, not their string forms
FilterOutStrict(refs, h, productId) ==
  SelectSeq(refs, LAMBDA r : h[r].id # productId)

RECURSIVE FilterOut(_, _, _)
FilterOut(refs, h, productId) ==
  IF refs = <<>> THEN <<>>
  ELSE IF JsString(h[Head(refs)].id) # JsString(productId)
    THEN <<Head(refs)>> \o FilterOut(Tail(refs), h, productId)
    ELSE FilterOut(Tail(refs), h, productId)

remove(W, productId) ==
  IF ~Truthy(productId) THEN [W EXCEPT !.ret = FALSE]
  ELSE LET W1 == [W EXCEPT !.items = FilterOut(W.items, W.heap, productId)] IN
       IF Len(W1.items) # Len(W.items)
         THEN LET W2 == saveToStorage(W1) IN
              [W2 EXCEPT !.pstate = [k \in DOMAIN @ |->
                                       IF k = productId.v THEN NoState ELSE @[k]],
                         !.ret = TRUE]
         ELSE [W1 EXCEPT !.ret = FALSE]

\* toggle with its two branches exchanged
toggleExchanged(W, product) ==
  IF ~contains(W, product.id)
    THEN [remove(W, product.id) EXCEPT !.ret = FALSE]
    ELSE [add(W, product) EXCEPT !.ret = TRUE]

toggle(W, product) ==
  IF contains(W, product.id)
    THEN [remove(W, product.id) EXCEPT !.ret = FALSE]
    ELSE [add(W, product) EXCEPT !.ret = TRUE]

(***************************************************************************)
(* Render Pipeline.                                                        *)
(***************************************************************************)
\* The markup of one saved item.  available: the add-to-cart button is not
\* disabled; inputDisabled: the variant input is; variantId is the value of
\* the variant input.  ref is the item object that the first option listener
\* of the element is bound to (0: no listener) and refs are the item objects
\* of all its option listeners, in the order they were added; selects are the
\* selects of its variant picker, and selectsDisabled says they are disabled.
Markup(key, price, variantId, avail, picker) ==
  [ key |-> key, price |-> price, variantId |-> variantId, available |-> avail,
    inputDisabled |-> ~avail, picker |-> picker, ref |-> 0, refs |-> <<>>,
    selects |-> <<>>, selectsDisabled |-> FALSE ]

NoMarkup == Markup(<<>>, <<>>, <<>>, FALSE, FALSE)

\* WishlistRenderResult
NoResult ==
  [ ref |-> 0, html |-> NoMarkup, storageDirty |-> FALSE,
    shouldInitVariantPicker |-> FALSE, productData |-> NoProductData,
    selectedVariant |-> NoVariant ]

\* escapeHtml
escapeHtml(x) == IF Nullish(x) THEN <<>> ELSE x.v

\* a selection that passes over a stored variant that is sold out
SelectVariantInStock(productData, item) ==
  LET vs == productData.variants IN
  IF ~productData.present \/ vs = <<>> THEN NoVariant
  ELSE IF \E i \in 1..Len(vs) : JsString(vs[i].id) = JsString(item.variant_id) /\ vs[i].available
    THEN vs[Min({i \in 1..Len(vs) : JsString(vs[i].id) = JsString(item.variant_id)})]
  ELSE IF \E i \in 1..Len(vs) : vs[i].available
    THEN vs[Min({i \in 1..Len(vs) : vs[i].available})]
  ELSE vs[1]

\* variants.find(id matches the stored variant) || first in stock || first
SelectVariant(productData, item) ==
  LET vs == productData.variants IN
  IF ~productData.present \/ vs = <<>> THEN NoVariant
  ELSE IF \E i \in 1..Len(vs) : JsString(vs[i].id) = JsString(item.variant_id)
    THEN vs[Min({i \in 1..Len(vs) : JsString(vs[i].id) = JsString(item.variant_id)})]
  ELSE IF \E i \in 1..Len(vs) : vs[i].available
    THEN vs[Min({i \in 1..Len(vs) : vs[i].available})]
  ELSE vs[1]

\* a || b on strings
OrElse(a, b) == IF Truthy(a) THEN a ELSE b

FallbackProductUrl(productData) ==
  IF ~productData.present THEN EmptyStr
  ELSE IF Truthy(productData.url) THEN productData.url
  ELSE IF Truthy(productData.handle) THEN Str(<<"/products/">> \o productData.handle.v)
  ELSE EmptyStr

BaseUrl(item, productData) ==
  IF Truthy(item.url) THEN Str(SplitQuery(item.url.v)) ELSE FallbackProductUrl(productData)

\* variantUrl of prepareWishlistItem
\* a URL that stays as it is stored
VariantUrlStored(item, baseUrl, selectedVariant) == OrElse(item.url, baseUrl)

VariantUrl(item, baseUrl, selectedVariant) ==
  IF selectedVariant.present /\ Truthy(buildVariantUrl(baseUrl, selectedVariant.id))
    THEN buildVariantUrl(baseUrl, selectedVariant.id)
    ELSE OrElse(item.url, baseUrl)

\* price and isAvailable of prepareWishlistItem
ItemPrice(item, selectedVariant) ==
  IF selectedVariant.present THEN formatMoney(selectedVariant.price) ELSE item.price

\* an availability that is the stored flag of the item
IsAvailableStored(item, selectedVariant) == item.available # Bool(FALSE)

IsAvailable(item, selectedVariant) ==
  IF selectedVariant.present THEN selectedVariant.available ELSE item.available # Bool(FALSE)

\* updates of prepareWishlistItem
ItemUpdates(item, productData, selectedVariant) ==
  [NoUpdates EXCEPT
     !.variant_id = selectedVariant.id,
     !.available = Bool(selectedVariant.available),
     !.price = ItemPrice(item, selectedVariant),
     !.image = resolveProductImage(productData, selectedVariant, item.image),
     !.url = VariantUrl(item, BaseUrl(item, productData), selectedVariant),
     !.handle = IF Truthy(productData.handle) THEN productData.handle
                ELSE getProductHandle(item)]

(***************************************************************************)
(* The variant picker of an element of the view: one select per product    *)
(* option.  An option value is a string; a selection is a list of values,  *)
(* one per product option, Undefined where nothing is selected.            *)
(***************************************************************************)
\* An <option> of a select: its value, whether it is disabled, and the
\* data-available and data-variant-id attributes ("" and <<>>: not set).
OptionEl(v) == [value |-> v, disabled |-> FALSE, available |-> "", variantId |-> <<>>]

\* A <select> of the picker; value "" when no option is selected.
SelectEl(options, v) == [options |-> options, value |-> v]

\* select.value || undefined
ValueOf(v) == IF v = "" THEN Undefined ELSE Str(<<v>>)

getVariantOptionValues(variant) == variant.options

\* a comparison that takes an undefined value for a value to match
MatchesSelectionStrict(variant, selectedValues) ==
  \A index \in 1..Len(selectedValues) :
    /\ index <= Len(variant.options)
    /\ Str(<<variant.options[index]>>) = selectedValues[index]

\* variant.options[index] === value for every defined value
MatchesSelection(variant, selectedValues) ==
  \A index \in 1..Len(selectedValues) :
    \/ selectedValues[index] = Undefined
    \/ /\ index <= Len(variant.options)
       /\ Str(<<variant.options[index]>>) = selectedValues[index]

\* variants.find(...): the first variant that matches, or none
RECURSIVE findVariantByOptions(_, _)
findVariantByOptions(variants, selectedValues) ==
  IF variants = <<>> THEN NoVariant
  ELSE IF MatchesSelection(Head(variants), selectedValues) THEN Head(variants)
  ELSE findVariantByOptions(Tail(variants), selectedValues)

\* The values of a list without repetitions, in the order of first occurrence.
RECURSIVE Distinct(_)
Distinct(values) ==
  IF values = <<>> THEN <<>>
  ELSE <<Head(values)>> \o Distinct(SelectSeq(Tail(values), LAMBDA v : v # Head(values)))

\* The values the variants have for the option at index, in catalog order.
ValuesAt(variants, index) ==
  Distinct([k \in 1..Len(SelectSeq(variants, LAMBDA v : index <= Len(v.options))) |->
              SelectSeq(variants, LAMBDA v : index <= Len(v.options))[k].options[index]])

\* The first option with a value that is not disabled, or "".
FirstEnabled(options) ==
  IF \E k \in 1..Len(options) : options[k].value # "" /\ ~options[k].disabled
    THEN options[Min({k \in 1..Len(options) : options[k].value # "" /\ ~options[k].disabled})].value
    ELSE ""

\* The option with value v is there and is not disabled.
Selectable(options, v) ==
  \E k \in 1..Len(options) : options[k].value = v /\ ~options[k].disabled

\* The select that buildVariantPickerHtml writes for the option at index:
\* the value of the selected variant carries the attribute selected, and
\* without it the browser selects the first option that is not disabled.
BuiltSelect(values, selected) ==
  SelectEl([k \in 1..Len(values) |-> OptionEl(values[k])],
           IF \E k \in 1..Len(values) : values[k] = selected THEN selected
           ELSE IF values = <<>> THEN "" ELSE values[1])

\* buildVariantPickerHtml: no selects without options or without variants.
buildVariantPickerHtml(productData, selectedVariant) ==
  IF productData.options = <<>> \/ productData.variants = <<>> THEN <<>>
  ELSE [index \in 1..Len(productData.options) |->
          BuiltSelect(ValuesAt(productData.variants, index),
                      IF index <= Len(selectedVariant.options)
                        THEN selectedVariant.options[index] ELSE "")]

\* collectSelectedOptionValues: Undefined where the element has no select
collectSelectedOptionValues(selects, productData) ==
  [index \in 1..Len(productData.options) |->
     IF index <= Len(selects) THEN ValueOf(selects[index].value) ELSE Undefined]

\* setSelectValues: the value of the variant where the select has it
\* enabled, else the first enabled value.
SetSelect(select, desiredValue) ==
  [select EXCEPT !.value = IF desiredValue # "" /\ Selectable(select.options, desiredValue)
                             THEN desiredValue
                             ELSE FirstEnabled(select.options)]

setSelectValues(selects, productData, variant) ==
  [index \in 1..Len(selects) |->
     IF index <= Len(productData.options)
       THEN SetSelect(selects[index],
                      IF index <= Len(variant.options) THEN variant.options[index] ELSE "")
       ELSE selects[index]]

\* a test that also disables the value of a variant that is sold out
TestedOptionInStock(optionEl, variant) ==
  IF optionEl.value = "" THEN optionEl
  ELSE IF variant.present /\ variant.available
    THEN [optionEl EXCEPT !.disabled = FALSE, !.available = "true",
                          !.variantId = JsString(variant.id).v]
    ELSE [optionEl EXCEPT !.disabled = TRUE, !.available = "false", !.variantId = <<>>]

\* An option after its value has been tested: disabled without a matching
\* variant, else tagged with the availability and the id of the match.
TestedOption(optionEl, variant) ==
  IF optionEl.value = "" THEN optionEl
  ELSE IF variant.present
    THEN [optionEl EXCEPT !.disabled = FALSE,
                          !.available = IF variant.available THEN "true" ELSE "false",
                          !.variantId = JsString(variant.id).v]
    ELSE [optionEl EXCEPT !.disabled = TRUE, !.available = "false", !.variantId = <<>>]

TestedOptions(options, productData, normalizedValues, optionIndex) ==
  [k \in 1..Len(options) |->
     TestedOption(options[k],
                  findVariantByOptions(productData.variants,
                    [normalizedValues EXCEPT ![optionIndex] = Str(<<options[k].value>>)]))]

\* a select that keeps the value it shows
NormalizedSelectKept(select, options) == SelectEl(options, select.value)

\* The select after its options were tested: a selection that is missing or
\* disabled gives way to the first enabled value.
NormalizedSelect(select, options) ==
  IF select.value = "" \/ ~Selectable(options, select.value)
    THEN SelectEl(options, FirstEnabled(options))
    ELSE SelectEl(options, select.value)

RECURSIVE UpdateFrom(_, _, _, _)
UpdateStep(selects, productData, normalizedValues, optionIndex, select) ==
  UpdateFrom([selects EXCEPT ![optionIndex] = select], productData,
             [normalizedValues EXCEPT ![optionIndex] = ValueOf(select.value)],
             optionIndex + 1)

UpdateFrom(selects, productData, normalizedValues, optionIndex) ==
  IF optionIndex > Len(productData.options)
    THEN [selects |-> selects, values |-> normalizedValues]
  ELSE IF optionIndex > Len(selects)
    THEN UpdateFrom(selects, productData, normalizedValues, optionIndex + 1)
  ELSE UpdateStep(selects, productData, normalizedValues, optionIndex,
                  NormalizedSelect(selects[optionIndex],
                                   TestedOptions(selects[optionIndex].options, productData,
                                                 normalizedValues, optionIndex)))

\* updateVariantOptionAvailability: the selects after the update, and the
\* normalized values it returns.
updateVariantOptionAvailability(selects, productData) ==
  UpdateFrom(selects, productData, collectSelectedOptionValues(selects, productData), 1)

\* The in-place update of prepareWishlistItem: only with product data and a variant.
Updated(item, productData, selectedVariant) ==
  IF productData.present /\ selectedVariant.present
    THEN updateWishlistItemData(item, ItemUpdates(item, productData, selectedVariant))
    ELSE [item |-> item, changed |-> FALSE]

\* The product state that prepareWishlistItem sets or deletes.
ProductState(item, productData, selectedVariant) ==
  IF productData.present /\ selectedVariant.present
    THEN [present |-> TRUE, baseUrl |-> BaseUrl(item, productData),
          handle |-> productData.handle, variantId |-> selectedVariant.id]
    ELSE NoState

\* The end of prepareWishlistItem: item is the record before the update, upd
\* the outcome of the update.
Prepared(W, ref, productData, selectedVariant, item, upd) ==
  [ W |-> [W EXCEPT !.heap[ref] = upd.item,
                    !.pstate = [k \in DOMAIN @ |->
                                  IF k = JsString(item.id).v
                                    THEN ProductState(item, productData, selectedVariant)
                                    ELSE @[k]]],
    result |->
      [ ref |-> ref,
        html |-> [Markup(escapeHtml(item.id),
                        OrElse(ItemPrice(item, selectedVariant), upd.item.price).v,
                        IF Truthy(upd.item.variant_id) THEN upd.item.variant_id.v ELSE <<>>,
                        IsAvailable(item, selectedVariant),
                        productData.present /\ selectedVariant.present
                          /\ IsAvailable(item, selectedVariant))
                   EXCEPT !.selects =
                     IF productData.present /\ selectedVariant.present
                          /\ IsAvailable(item, selectedVariant)
                       THEN buildVariantPickerHtml(productData, selectedVariant)
                       ELSE <<>>],
        storageDirty |-> upd.changed,
        shouldInitVariantPicker |-> productData.present /\ selectedVariant.present
                                      /\ IsAvailable(item, selectedVariant),
        productData |-> productData,
        selectedVariant |-> selectedVariant ] ]

Selected(W, ref, productData, selectedVariant) ==
  Prepared(W, ref, productData, selectedVariant, W.heap[ref],
           Updated(W.heap[ref], productData, selectedVariant))

\* prepareWishlistItem after its fetch has settled with productData: the
\* in-place update of the item, the product state and the render result.
prepareWishlistItem(W, ref, productData) ==
  Selected(W, ref, productData, SelectVariant(productData, W.heap[ref]))

\* A slot of a pass: the fetch of one item (pending on handle), or its result.
PendingSlot(h) == [st |-> "pending", handle |-> h, res |-> NoResult]
DoneSlot(res) == [st |-> "done", handle |-> "", res |-> res]

AllDone(slots) == \A i \in 1..Len(slots) : slots[i].st = "done"

\* querySelector('[data-wishlist-item="key"]'): the first element with the key
ElementOf(html, k) ==
  IF \E i \in 1..Len(html) : html[i].key = k
    THEN Min({i \in 1..Len(html) : html[i].key = k})
    ELSE 0

\* The results whose option listener is bound to element i.
Bound(W, results, i) ==
  {r \in 1..Len(results) :
     /\ ElementOf([j \in 1..Len(results) |-> results[j].html],
                  JsString(W.heap[results[r].ref].id).v) = i
     /\ results[r].shouldInitVariantPicker
     /\ results[r].productData.present
     /\ results[r].selectedVariant.present}

\* The item objects of the results in S, in the order of the results.
RECURSIVE RefsOf(_, _)
RefsOf(results, S) ==
  IF S = {} THEN <<>> ELSE <<results[Min(S)].ref>> \o RefsOf(results, S \ {Min(S)})

Wired(W, results) ==
  [i \in 1..Len(results) |->
     IF Bound(W, results, i) = {} THEN results[i].html
     ELSE [results[i].html EXCEPT !.ref = results[Min(Bound(W, results, i))].ref,
                                  !.refs = RefsOf(results, Bound(W, results, i))]]

\* baseUrl of applyVariantSelection
AppliedBaseUrl(existingState, item, productData) ==
  IF existingState.present THEN existingState.baseUrl ELSE BaseUrl(item, productData)

\* updates that leave the price as it is stored
AppliedUpdatesOldPrice(item, productData, variant, baseUrl) ==
  [ItemUpdates(item, productData, variant)
     EXCEPT !.url = VariantUrl(item, baseUrl, variant), !.price = Undefined]

\* dataUpdates of applyVariantSelection
AppliedUpdates(item, productData, variant, baseUrl) ==
  [ItemUpdates(item, productData, variant) EXCEPT !.url = VariantUrl(item, baseUrl, variant)]

\* The element after applyVariantSelection: its selects, the variant input,
\* the button and the price.
AppliedMarkup(el, productData, variant) ==
  [el EXCEPT
     !.selects = updateVariantOptionAvailability(
                   setSelectValues(@, productData, variant), productData).selects,
     !.price = formatMoney(variant.price).v,
     !.variantId = JsString(variant.id).v,
     !.inputDisabled = ~variant.available,
     !.available = variant.available,
     !.selectsDisabled = FALSE]

SavedIf(W, changed) == IF changed THEN saveToStorage(W) ELSE W

AppliedTo(W, i, ref, productData, variant, baseUrl, upd) ==
  [SavedIf([W EXCEPT !.container[i] = AppliedMarkup(@, productData, variant),
                     !.heap[ref] = upd.item],
           upd.changed)
     EXCEPT !.pstate[JsString(upd.item.id).v] =
              [present |-> TRUE, baseUrl |-> baseUrl,
               handle |-> productData.handle, variantId |-> variant.id]]

AppliedWith(W, i, ref, productData, variant, baseUrl) ==
  AppliedTo(W, i, ref, productData, variant, baseUrl,
            updateWishlistItemData(W.heap[ref],
                                   AppliedUpdates(W.heap[ref], productData, variant, baseUrl)))

\* applyVariantSelection on element i of the view for the item record ref
applyVariantSelection(W, i, ref, productData, variant) ==
  AppliedWith(W, i, ref, productData, variant,
              AppliedBaseUrl(W.pstate[JsString(W.heap[ref].id).v], W.heap[ref], productData))

\* findVariantByOptions(...) || selectedVariant
ResolvedVariant(productData, normalizedValues, selectedVariant) ==
  IF findVariantByOptions(productData.variants, normalizedValues).present
    THEN findVariantByOptions(productData.variants, normalizedValues)
    ELSE selectedVariant

Initialized(W, i, ref, productData, selectedVariant, resolvedVariant) ==
  IF resolvedVariant.present /\ resolvedVariant.id # selectedVariant.id
    THEN applyVariantSelection(W, i, ref, productData, resolvedVariant)
    ELSE W

InitializedWith(W, i, ref, productData, selectedVariant, updated) ==
  Initialized([W EXCEPT !.container[i].selects = updated.selects], i, ref, productData,
              selectedVariant,
              ResolvedVariant(productData, updated.values, selectedVariant))

\* initializeWishlistVariantPicker on element i of the view.  The item
\* template is a collaborator; every element is taken to hold the options
\* container that the picker markup is placed in.
initializeWishlistVariantPicker(W, i, ref, productData, selectedVariant) ==
  InitializedWith(W, i, ref, productData, selectedVariant,
                  updateVariantOptionAvailability(
                    setSelectValues(W.container[i].selects, productData, selectedVariant),
                    productData))

\* renderResults.forEach of renderWishlistPage, from result r on: the picker
\* of a result is set up on the first element that carries the key of its item.
RECURSIVE WireFrom(_, _, _)
WireResult(W, result, i) ==
  IF i # 0 /\ result.productData.present /\ result.selectedVariant.present
       /\ result.shouldInitVariantPicker
    THEN initializeWishlistVariantPicker(W, i, result.ref, result.productData,
                                         result.selectedVariant)
    ELSE W

WireFrom(W, results, r) ==
  IF r > Len(results) THEN W
  ELSE WireFrom(WireResult(W, results[r],
                           ElementOf(W.container, JsString(W.heap[results[r].ref].id).v)),
                results, r + 1)

\* variants.find((candidate) => candidate.available) || variants[0]
FallbackVariant(variants) ==
  IF variants = <<>> THEN NoVariant
  ELSE IF \E k \in 1..Len(variants) : variants[k].available
    THEN variants[Min({k \in 1..Len(variants) : variants[k].available})]
  ELSE variants[1]

\* an unavailable state that leaves the saved item as it is
applyVariantUnavailableStateUnsaved(W, i, ref) ==
  [W EXCEPT !.container[i] = [@ EXCEPT !.available = FALSE, !.variantId = <<>>,
                                       !.inputDisabled = TRUE, !.selectsDisabled = TRUE]]

\* applyVariantUnavailableState on element i of the view for the item record ref
applyVariantUnavailableState(W, i, ref) ==
  saveToStorage([W EXCEPT !.container[i] = [@ EXCEPT !.available = FALSE, !.variantId = <<>>,
                                                      !.inputDisabled = TRUE,
                                                      !.selectsDisabled = TRUE],
                          !.heap[ref] = [@ EXCEPT !.available = Bool(FALSE),
                                                  !.variant_id = EmptyStr]])

\* handleWishlistVariantSelection where no variant matches: variant is the
\* fallback variant.
Reselected(W, i, ref, productData, variant) ==
  IF ~variant.present THEN applyVariantUnavailableState(W, i, ref)
  ELSE applyVariantSelection(
         [W EXCEPT !.container[i].selects =
                     updateVariantOptionAvailability(
                       setSelectValues(@, productData, variant), productData).selects],
         i, ref, productData, variant)

HandledWith(W, i, ref, productData, variant) ==
  IF variant.present THEN applyVariantSelection(W, i, ref, productData, variant)
  ELSE Reselected(W, i, ref, productData, FallbackVariant(productData.variants))

HandledFrom(W, i, ref, productData, updated) ==
  HandledWith([W EXCEPT !.container[i].selects = updated.selects], i, ref, productData,
              findVariantByOptions(productData.variants, updated.values))

\* handleWishlistVariantSelection on element i of the view for the item record ref
handleWishlistVariantSelection(W, i, ref, productData) ==
  HandledFrom(W, i, ref, productData,
              updateVariantOptionAvailability(W.container[i].selects, productData))

\* The product data a listener was added with: the cache entry of the handle
\* of its item, which the pass wrote to the item before it added the listener.
ListenerData(W, ref) ==
  IF Truthy(W.heap[ref].handle) /\ W.heap[ref].handle.v[1] \in Handles
    THEN W.cache[W.heap[ref].handle.v[1]]
    ELSE NoProductData

\* A change event on element i: its change listeners run in the order in
\* which they were added.
RECURSIVE changeHandler(_, _, _)
changeHandler(W, i, refs) ==
  IF refs = <<>> THEN W
  ELSE changeHandler(handleWishlistVariantSelection(W, i, Head(refs),
                                                    ListenerData(W, Head(refs))),
                     i, Tail(refs))

\* The tail of renderWishlistPage, after Promise.all has settled.
\* the end of a pass without the consolidated save
FinishedUnsaved(W, results) ==
  WireFrom([W EXCEPT !.container = Wired(W, results)], results, 1)

\* the end of a pass that saves the items the pass was started on
FinishedSnapshot(W, results) ==
  SavedIf(WireFrom([W EXCEPT !.container = Wired(W, results),
                             !.items = [i \in 1..Len(results) |-> results[i].ref]],
                   results, 1),
          \E i \in 1..Len(results) : results[i].storageDirty)

Finished(W, results) ==
  SavedIf(WireFrom([W EXCEPT !.container = Wired(W, results)], results, 1),
          \E i \in 1..Len(results) : results[i].storageDirty)

finishPass(W, slots) == Finished(W, [i \in 1..Len(slots) |-> slots[i].res])

\* The synchronous part of fetchProductData for an item with handle h.
FetchPlanOf(W, h) ==
  IF ~Truthy(h) THEN [immediate |-> TRUE, data |-> NoProductData, handle |-> ""]
  ELSE IF h.v[1] \in DOMAIN W.cache /\ W.cache[h.v[1]].present
    THEN [immediate |-> TRUE, data |-> W.cache[h.v[1]], handle |-> h.v[1]]
    ELSE [immediate |-> FALSE, data |-> NoProductData, handle |-> h.v[1]]

FetchPlan(W, ref) == FetchPlanOf(W, getProductHandle(W.heap[ref]))

Prepend(slot, rest) == [W |-> rest.W, slots |-> <<slot>> \o rest.slots]

\* Run the continuations of the slots that need no network, in list order.
RECURSIVE RunImmediate(_, _, _)
RunNext(step, snap, i) == Prepend(DoneSlot(step.result), RunImmediate(step.W, snap, i + 1))

RunPlanned(W, snap, i, plan) ==
  IF plan.immediate
    THEN RunNext(prepareWishlistItem(W, snap[i], plan.data), snap, i)
    ELSE Prepend(PendingSlot(plan.handle), RunImmediate(W, snap, i + 1))

RunImmediate(W, snap, i) ==
  IF i > Len(snap) THEN [W |-> W, slots |-> <<>>]
  ELSE RunPlanned(W, snap, i, FetchPlan(W, snap[i]))

\* Promise.all over the items: settled at once, or a pass that awaits fetches.
Started(run, snap) ==
  IF AllDone(run.slots) THEN finishPass(run.W, run.slots)
  ELSE [run.W EXCEPT !.passes = Append(@, [snap |-> snap, slots |-> run.slots])]

renderWishlistPage(W) ==
  IF ~W.view THEN [W EXCEPT !.renders = @ + 1]
  ELSE IF Len(W.items) = 0
    THEN [W EXCEPT !.renders = @ + 1, !.container = <<>>, !.emptyHidden = FALSE]
    ELSE Started(RunImmediate([W EXCEPT !.renders = @ + 1, !.emptyHidden = TRUE],
                              W.items, 1),
                 W.items)

clear(W) ==
  renderWishlistPage([saveToStorage([W EXCEPT !.items = <<>>])
                        EXCEPT !.pstate = [k \in DOMAIN @ |-> NoState]])

(***************************************************************************)
(* Handlers.                                                               *)
(***************************************************************************)
IdStrings == {JsString(id).v : id \in ApiIds}

NoCache == [h \in Handles |-> NoProductData]
NoStates == [k \in IdStrings |-> NoState]

\* What a handler did: the writes it attempted, whether one of them failed,
\* the calls of renderWishlistPage, and whether an exception left the handler.
Done(op, t, W) ==
  [ op |-> op, tab |-> t, ret |-> W.ret, writes |-> W.writes,
    failed |-> W.failed, renders |-> W.renders, raised |-> W.threw ]

\* The history after a call of op with the id arg.
Noted(op, arg) == IF hist.on THEN [hist EXCEPT !.trail = Append(@, <<op, arg>>)] ELSE hist

\* Object references are names only: Rename numbers the objects in use in the
\* order in which the list, the passes and the view mention them.
RECURSIVE Flatten(_)
Flatten(seqs) == IF seqs = <<>> THEN <<>> ELSE Head(seqs) \o Flatten(Tail(seqs))

Mentions(W) ==
  W.items \o Flatten([p \in 1..Len(W.passes) |-> W.passes[p].snap])
          \o [i \in 1..Len(W.container) |-> W.container[i].ref]
          \o Flatten([i \in 1..Len(W.container) |-> W.container[i].refs])

Rank(m, r) ==
  LET first == Min({i \in 1..Len(m) : m[i] = r}) IN
  Cardinality({m[j] : j \in 1..(first - 1)} \ {0}) + 1

Rename(W) ==
  LET m == Mentions(W)
      used == {m[i] : i \in 1..Len(m)} \ {0}
      to == [r \in used |-> Rank(m, r)]
      At(r) == IF r = 0 THEN 0 ELSE to[r]
  IN [W EXCEPT
        !.items = [i \in 1..Len(W.items) |-> At(W.items[i])],
        !.heap = [n \in Refs |-> IF \E r \in used : to[r] = n
                                   THEN W.heap[CHOOSE r \in used : to[r] = n]
                                   ELSE BlankItem],
        !.passes = [p \in 1..Len(W.passes) |->
                      [W.passes[p] EXCEPT
                         !.snap = [i \in 1..Len(@) |-> At(@[i])],
                         !.slots = [i \in 1..Len(@) |->
                                      [@[i] EXCEPT !.res.ref = At(@)]]]],
        !.container = [i \in 1..Len(W.container) |->
                         [W.container[i] EXCEPT !.ref = At(@),
                                                !.refs = [k \in 1..Len(@) |-> At(@[k])]]]]

\* The tabs that are open: their storage listeners are registered.
Open == {t \in Tabs : page[t] # "closed"}

\* Write the view W0 of tab t back.  q is the queue of storage events after the
\* handler has taken its own event; every changed write of the handler sends
\* one storage event to each other tab.
Commit(t, W0, q, record, arg) ==
  \E W \in {Rename(W0)} :
    /\ Len(W.items) <= MaxItems
    /\ Len(W.passes) <= MaxPasses
    /\ \A o \in Open \ {t} : Len(q[o]) + W.events <= MaxQueue
    /\ items' = [items EXCEPT ![t] = W.items]
    /\ heap' = [heap EXCEPT ![t] = W.heap]
    /\ productCache' = [productCache EXCEPT ![t] = W.cache]
    /\ wishlistProductData' = [wishlistProductData EXCEPT ![t] = W.pstate]
    /\ passes' = [passes EXCEPT ![t] = W.passes]
    /\ container' = [container EXCEPT ![t] = W.container]
    /\ emptyHidden' = [emptyHidden EXCEPT ![t] = W.emptyHidden]
    /\ counter' = [counter EXCEPT ![t] = W.counter]
    /\ buttons' = [buttons EXCEPT ![t] = W.buttons]
    /\ storage' = W.storage
    /\ queue' = [o \in Tabs |-> IF o \in Open \ {t}
                                THEN q[o] \o [i \in 1..W.events |-> storageKey]
                                ELSE q[o]]
    /\ last' = record
    /\ hist.on => Len(hist.trail) < MaxTrail
    /\ hist' = Noted(record.op, arg)
    /\ UNCHANGED <<page, trial>>

\* a reload that keeps the records the tab holds and adds the loaded ones
LoadedMerged(W, loaded, refs) ==
  [W EXCEPT !.items = IF W.threw THEN @ ELSE @ \o refs,
            !.heap = [r \in Refs |-> IF \E i \in 1..Len(refs) : refs[i] = r
                                       THEN loaded[CHOOSE i \in 1..Len(refs) : refs[i] = r]
                                       ELSE @[r]]]

\* this.items = this.loadFromStorage(): every loaded record is a new object.
Loaded(W, loaded, refs) ==
  [W EXCEPT !.items = IF W.threw THEN @ ELSE refs,
            !.heap = [r \in Refs |-> IF \E i \in 1..Len(refs) : refs[i] = r
                                       THEN loaded[CHOOSE i \in 1..Len(refs) : refs[i] = r]
                                       ELSE @[r]]]

LoadItems(W) ==
  Loaded([W EXCEPT !.threw = @ \/ loadFromStorage(W.storage).threw],
         loadFromStorage(W.storage).items,
         FirstRefs(FreeRefs([W EXCEPT !.items = <<>>]),
                   Len(loadFromStorage(W.storage).items)))

CanLoad(W) ==
  Cardinality(FreeRefs([W EXCEPT !.items = <<>>])) >= Len(loadFromStorage(W.storage).items)

\* The constructor and init() on a freshly loaded page.
constructor(W) ==
  LET fresh == [W EXCEPT !.items = <<>>, !.cache = NoCache, !.pstate = NoStates,
                         !.passes = <<>>, !.container = <<>>, !.emptyHidden = TRUE,
                         !.counter = 0, !.buttons = {}]
  IN renderWishlistPage(updateWishlistCounters(updateWishlistButtons(LoadItems(fresh))))

PageLoad(t) ==
  /\ CanLoad([View(t, "ok", 0) EXCEPT !.passes = <<>>, !.container = <<>>])
  /\ \E W \in {constructor(View(t, "ok", 0))} :
       Commit(t, W, queue, Done("load", t, W), Undefined)

\* handleWishlistButtonClick on the button of a product.
handleWishlistButtonClick(W, product) ==
  LET W1 == toggle(W, product)
      key == JsString(product.id).v
  IN [W1 EXCEPT !.buttons = IF W1.ret THEN @ \cup {key} ELSE @ \ {key}]

ButtonClick(t, product, mode, ts) ==
  /\ FreeRefs(View(t, mode, ts)) # {}
  /\ \E W \in {handleWishlistButtonClick(View(t, mode, ts), product)} :
       Commit(t, W, queue, Done("click", t, W), product.id)

\* A click on the remove button of element i of the saved-items view.
removeClick(W, key) ==
  LET W1 == remove(W, Str(key)) IN
  [renderWishlistPage(W1) EXCEPT !.ret = W1.ret]

RemoveClick(t, i, mode) ==
  /\ container[t][i].key # <<>>
  /\ \E W \in {removeClick(View(t, mode, 0), container[t][i].key)} :
       Commit(t, W, queue, Done("removeClick", t, W), Undefined)

\* The public methods, called on window.wishlist.
ApiAdd(t, product, mode, ts) ==
  /\ FreeRefs(View(t, mode, ts)) # {}
  /\ \E W \in {add(View(t, mode, ts), product)} :
       Commit(t, W, queue, Done("add", t, W), product.id)

ApiRemove(t, productId, mode) ==
  \E W \in {remove(View(t, mode, 0), productId)} :
    Commit(t, W, queue, Done("remove", t, W), productId)

ApiToggle(t, product, mode, ts) ==
  /\ FreeRefs(View(t, mode, ts)) # {}
  /\ \E W \in {toggle(View(t, mode, ts), product)} :
       Commit(t, W, queue, Done("toggle", t, W), product.id)

ApiClear(t, mode) ==
  \E W \in {clear(View(t, mode, 0))} :
    Commit(t, W, queue, Done("clear", t, W), Undefined)

\* The storage listener without the reload: it refreshes the page from the
\* list the tab already holds.
storageListenerKeepsList(W, key) ==
  IF key = storageKey
    THEN renderWishlistPage(updateWishlistCounters(updateWishlistButtons(W)))
    ELSE W

\* The storage listener: a change of this module's key reloads the list.
storageListener(W, key) ==
  IF key = storageKey
    THEN renderWishlistPage(updateWishlistCounters(updateWishlistButtons(LoadItems(W))))
    ELSE W

StorageEvent(t, mode) ==
  /\ queue[t] # <<>>
  /\ Head(queue[t]) = storageKey => CanLoad(View(t, mode, 0))
  /\ Head(queue[t]) # storageKey => mode = "ok"
  /\ \E W \in {storageListener(View(t, mode, 0), Head(queue[t]))} :
       Commit(t, W, [queue EXCEPT ![t] = Tail(@)],
              Done(IF Head(queue[t]) = storageKey THEN "storage" ELSE "otherKey", t, W), Undefined)

\* the continuation that places the markup of the settled slots at once
ContinueEarly(step, p, i, slots) ==
  IF AllDone(slots)
    THEN finishPass([step.W EXCEPT !.passes =
                       [k \in 1..(Len(@) - 1) |-> IF k < p THEN @[k] ELSE @[k + 1]]],
                    slots)
    ELSE [step.W EXCEPT !.passes[p].slots = slots,
                        !.container = [j \in 1..Len(slots) |-> slots[j].res.html]]

Continue(step, p, i, slots) ==
  IF AllDone(slots)
    THEN finishPass([step.W EXCEPT !.passes =
                       [k \in 1..(Len(@) - 1) |-> IF k < p THEN @[k] ELSE @[k + 1]]],
                    slots)
    ELSE [step.W EXCEPT !.passes[p].slots = slots]

Settled(W, p, i, step) ==
  Continue(step, p, i, [W.passes[p].slots EXCEPT ![i] = DoneSlot(step.result)])

\* What the catalog answers: the product's data ("product"), the data after a
\* change of a price in the shop ("repriced"), a response that is not ok
\* ("status"), no response ("reject": fetch rejects), a body that is not JSON
\* ("text": response.json() rejects), or JSON that is not an object ("value":
\* normalizeProductData returns undefined).
FailedResponses == {"status", "reject", "text", "value"}

\* The try block of fetchProductData after the cache miss.
FetchTry(W, handle, response) ==
  IF response \in {"reject", "text"}
    THEN [W |-> [W EXCEPT !.threw = TRUE], data |-> NoProductData]
  ELSE IF response \in {"status", "value"}
    THEN [W |-> W, data |-> NoProductData]
  ELSE IF response = "repriced"
    THEN [W |-> [W EXCEPT !.cache[handle] = Repriced(Catalog(handle))],
          data |-> Repriced(Catalog(handle))]
  ELSE [W |-> [W EXCEPT !.cache[handle] = Catalog(handle)], data |-> Catalog(handle)]

\* fetchProductData without its catch clause
FetchRethrown(W, r) == r

\* The catch clause of fetchProductData logs the exception and returns undefined.
FetchCaught(W, r) == IF r.W.threw /\ ~W.threw THEN [r EXCEPT !.W.threw = FALSE] ELSE r

fetchProductData(W, handle, response) == FetchCaught(W, FetchTry(W, handle, response))

Resumed(W, p, i, fetched) ==
  Settled(W, p, i, prepareWishlistItem(fetched.W, W.passes[p].snap[i], fetched.data))

fetchSettled(W, p, i, response) ==
  Resumed(W, p, i, fetchProductData(W, W.passes[p].slots[i].handle, response))

\* The catalog request of slot i of pass p settles: with the product's data
\* (ok), or with an error response, a network error or a malformed body.
FetchDone(t, p, i, ok, mode) ==
  /\ passes[t][p].slots[i].st = "pending"
  /\ ok => passes[t][p].slots[i].handle \in Handles
  /\ \E response \in IF ok THEN {"product"} ELSE FailedResponses :
       \E W \in {fetchSettled(View(t, mode, 0), p, i, response)} :
         Commit(t, W, queue, Done("fetch", t, W), Undefined)

\* The catalog request of slot i of pass p is answered after the shop has
\* changed the price of the product.
FetchLater(t, p, i, mode) ==
  /\ passes[t][p].slots[i].st = "pending"
  /\ passes[t][p].slots[i].handle \in Handles
  /\ \E W \in {fetchSettled(View(t, mode, 0), p, i, "repriced")} :
       Commit(t, W, queue, Done("fetch", t, W), Undefined)

\* A further call of renderWishlistPage on the instance.
RenderCall(t) ==
  \E W \in {renderWishlistPage(View(t, "ok", 0))} :
    Commit(t, W, queue, Done("render", t, W), Undefined)

\* The user picks the value v in the select at index of element i: the
\* browser shows v and sends a change event to the options container.
OptionChange(t, i, index, v, mode) ==
  /\ index \in 1..Len(container[t][i].selects)
  /\ ~container[t][i].selectsDisabled
  /\ Selectable(container[t][i].selects[index].options, v)
  /\ v # container[t][i].selects[index].value
  /\ \E W \in {changeHandler([View(t, mode, 0) EXCEPT !.container[i].selects[index].value = v],
                              i, container[t][i].refs)} :
       Commit(t, W, queue, Done("change", t, W), Undefined)

\* handleWishlistVariantSelection, called on element i of the view for the
\* item of its listener and with the product data productData.
SelectionCall(t, i, productData, mode) ==
  /\ container[t][i].ref # 0
  /\ \E W \in {handleWishlistVariantSelection(View(t, mode, 0), i, container[t][i].ref,
                                               productData)} :
       Commit(t, W, queue, Done("call", t, W), Undefined)

\* A window of the origin that runs other code (a script of another app, an
\* older revision of this script) sets a key of localStorage: the browser
\* sends a storage event to every open tab when the value changes.
ForeignWrite(key, payload) ==
  /\ key = storageKey => payload # storage
  /\ \A o \in Open : Len(queue[o]) < MaxQueue
  /\ storage' = IF key = storageKey THEN payload ELSE storage
  /\ queue' = [o \in Tabs |-> IF o \in Open THEN Append(queue[o], key) ELSE queue[o]]
  /\ last' = [op |-> "foreign", tab |-> "", ret |-> FALSE, writes |-> 0,
              failed |-> FALSE, renders |-> 0, raised |-> FALSE]
  /\ UNCHANGED <<items, heap, productCache, wishlistProductData, passes, container,
                 emptyHidden, counter, buttons, page, hist, trial>>

(***************************************************************************)
(* Specifications.  The tabs start on freshly loaded pages over the slot   *)
(* as payloads leaves it.                                                  *)
(***************************************************************************)
\* A tab before its script has run.
Blank(kind, payload) ==
  [ items |-> <<>>, heap |-> [r \in Refs |-> BlankItem], cache |-> NoCache,
    pstate |-> NoStates, passes |-> <<>>, container |-> <<>>, emptyHidden |-> TRUE,
    counter |-> 0, buttons |-> {}, storage |-> payload, mode |-> "ok", now |-> 0,
    view |-> kind = "wishlist",
    events |-> 0, writes |-> 0, failed |-> FALSE, threw |-> FALSE,
    renders |-> 0, ret |-> FALSE ]

Constructed(kind, payload) ==
  IF kind = "closed" THEN Blank(kind, payload)
  ELSE Rename(constructor(Blank(kind, payload)))

\* No picker function is under trial.
NoPicker ==
  [ op |-> "none", productData |-> NoProductData, selectedValues |-> <<>>,
    before |-> <<>>, selects |-> <<>>, values |-> <<>>, found |-> NoVariant ]

InitPages(pages, payloads, traced) ==
  \E payload \in payloads :
    \E c \in {[t \in Tabs |-> Constructed(pages[t], payload)]} :
      /\ page = pages
      /\ storage = payload
      /\ items = [t \in Tabs |-> c[t].items]
      /\ heap = [t \in Tabs |-> c[t].heap]
      /\ productCache = [t \in Tabs |-> c[t].cache]
      /\ wishlistProductData = [t \in Tabs |-> c[t].pstate]
      /\ passes = [t \in Tabs |-> c[t].passes]
      /\ container = [t \in Tabs |-> c[t].container]
      /\ emptyHidden = [t \in Tabs |-> c[t].emptyHidden]
      /\ counter = [t \in Tabs |-> c[t].counter]
      /\ buttons = [t \in Tabs |-> c[t].buttons]
      /\ queue = [t \in Tabs |-> <<>>]
      /\ last = [op |-> "init", tab |-> "", ret |-> FALSE, writes |-> 0,
                 failed |-> FALSE, renders |-> 0, raised |-> FALSE]
      /\ hist = [on |-> traced, trail |-> <<>>,
                 origin |-> IF traced THEN Values(c["A"]) ELSE <<>>]
      /\ trial = NoPicker

\* What another window saves into the slot while tab A shows the view.
ForeignLists == {<<>>, <<NewItem([now |-> 0], P2)>>}

\* One tab on the page with the saved-items view.
Init == InitPages([t \in Tabs |-> IF t = "A" THEN "wishlist" ELSE "closed"], {AbsentPayload}, FALSE)

Next ==
  \/ PageLoad("A")
  \/ \E product \in ButtonProducts : ButtonClick("A", product, "ok", 0)
  \/ \E i \in 1..Len(container["A"]) : RemoveClick("A", i, "ok")
  \/ ApiClear("A", "ok")
  \/ StorageEvent("A", "ok")
  \/ \E p \in 1..Len(passes["A"]) :
       \E i \in 1..Len(passes["A"][p].slots), ok \in BOOLEAN : FetchDone("A", p, i, ok, "ok")
  \/ \E list \in ForeignLists : ForeignWrite(storageKey, JsonStringify(list))
  \/ ForeignWrite(OtherKey, AbsentPayload)

Spec == Init /\ [][Next]_vars

\* One tab on a page without the view, driven through its buttons and the
\* public methods; setItem may throw under a click and under clear.
InitStore == InitPages([t \in Tabs |-> IF t = "A" THEN "other" ELSE "closed"], {AbsentPayload}, FALSE)

NextStore ==
  \/ PageLoad("A")
  \/ \E product \in ButtonProducts, mode \in Modes, ts \in Timestamps :
       ButtonClick("A", product, mode, ts)
  \/ \E product \in ApiProducts, ts \in Timestamps : ApiAdd("A", product, "ok", ts)
  \/ \E productId \in ApiIds : ApiRemove("A", productId, "ok")
  \/ \E product \in ApiProducts, ts \in Timestamps : ApiToggle("A", product, "ok", ts)
  \/ \E mode \in Modes : ApiClear("A", mode)

SpecStore == InitStore /\ [][NextStore]_vars

\* Two tabs on pages without the view.
InitTabs == InitPages([t \in Tabs |-> "other"], {AbsentPayload}, FALSE)

NextTabs ==
  \/ \E t \in Tabs : PageLoad(t)
  \/ \E t \in Tabs, product \in ButtonProducts : ButtonClick(t, product, "ok", 0)
  \/ \E t \in Tabs : ApiClear(t, "ok")
  \/ \E t \in Tabs : StorageEvent(t, "ok")
  \/ ForeignWrite(OtherKey, AbsentPayload)

SpecTabs == InitTabs /\ [][NextTabs]_vars

\* The entries a stored array may hold: two records as the script saves
\* them, a record with fields of the wrong types, an object without fields,
\* and values that are no records.
Saved1 == ObjectEntry(NewItem([now |-> 0], P1))
Saved2 ==
  ObjectEntry([ id |-> Num("2"), title |-> Str(<<"Beta">>), image |-> Str(<<"//", "cdn/beta.jpg">>),
                url |-> Str(<<"/products/", "beta">>), price |-> Str(<<"$", "500", "/100">>),
                variant_id |-> Num("20"), available |-> Bool(FALSE),
                handle |-> Str(<<"beta">>), added_at |-> Str(<<"T", "0">>) ])
WrongTypes ==
  ObjectEntry([Saved1.f EXCEPT !.title = Num("5"), !.price = Null,
                               !.available = Str(<<"true">>), !.handle = Num("7")])
StoredEntries ==
  {Saved1, Saved2, WrongTypes, ObjectEntry(NoFields),
   OtherEntry("array"), OtherEntry("null"), OtherEntry("string")}

\* What the slot may hold when a tab loads from it.
StoredArrays ==
  {Payload("array", <<>>)}
    \cup {Payload("array", <<e>>) : e \in StoredEntries}
    \cup {Payload("array", <<e1, e2>>) : e1 \in StoredEntries, e2 \in StoredEntries}

LoadPayloads ==
  StoredArrays \cup {Payload(k, <<>>) : k \in {"absent", "empty", "garbage", "scalar"}}

\* One tab that loads from a slot that other code has written.
InitLoad ==
  InitPages([t \in Tabs |-> IF t = "A" THEN "other" ELSE "closed"],
            LoadPayloads \cup {Payload("securityError", <<>>)}, FALSE)

NextLoad ==
  \/ PageLoad("A")
  \/ StorageEvent("A", "ok")
  \/ \E payload \in LoadPayloads : ForeignWrite(storageKey, payload)
  \/ \E product \in ButtonProducts : ButtonClick("A", product, "ok", 0)

SpecLoad == InitLoad /\ [][NextLoad]_vars

\* The lists a scenario starts from.
SavedItems == {NewItem([now |-> 0], P) : P \in {P1, P2, P0}}

StartLists ==
  {<<>>} \cup {<<a>> : a \in SavedItems}
         \cup {<<a, b>> : a \in SavedItems, b \in SavedItems}

\* Two calls of toggle on a tab that has loaded one of the lists.
InitToggle ==
  InitPages([t \in Tabs |-> IF t = "A" THEN "other" ELSE "closed"],
            {JsonStringify(list) : list \in StartLists}, TRUE)

NextToggle == \E product \in ApiProducts : ApiToggle("A", product, "ok", 0)

SpecToggle == InitToggle /\ [][NextToggle]_vars

\* Calls of add and remove on a tab that has loaded one of the lists.
NextCalls ==
  \/ \E product \in ApiProducts : ApiAdd("A", product, "ok", 0)
  \/ \E productId \in ApiIds : ApiRemove("A", productId, "ok")

SpecCalls == InitToggle /\ [][NextCalls]_vars

\* One tab on the page with the saved-items view, started on the empty
\* list: product P1 is saved and removed through the public methods, its id
\* given as a string or as a number, or through its button, and the page is
\* loaded again.
NextEndToEnd ==
  \/ \E product \in {P1, P1n} : ApiAdd("A", product, "ok", 0)
  \/ \E productId \in {P1.id, P1n.id} : ApiRemove("A", productId, "ok")
  \/ ButtonClick("A", P1, "ok", 0)
  \/ PageLoad("A")
  \/ \E p \in 1..Len(passes["A"]) :
       \E i \in 1..Len(passes["A"][p].slots), ok \in BOOLEAN : FetchDone("A", p, i, ok, "ok")

SpecEndToEnd == Init /\ [][NextEndToEnd]_vars

\* One tab on the page with the saved-items view, started on a list that
\* holds a product without a button on the page, and driven through the
\* buttons, the view and the fetches only.
SavedElsewhere == NewItem([now |-> 0], [P0 EXCEPT !.id = Str(<<"0">>)])

OrderLists ==
  { <<SavedElsewhere>>,
    <<SavedElsewhere, NewItem([now |-> 0], P1)>>,
    <<NewItem([now |-> 0], P2), SavedElsewhere>> }

InitOrder ==
  InitPages([t \in Tabs |-> IF t = "A" THEN "wishlist" ELSE "closed"],
            {JsonStringify(list) : list \in OrderLists}, FALSE)

NextOrder ==
  \/ PageLoad("A")
  \/ \E product \in ButtonProducts : ButtonClick("A", product, "ok", 0)
  \/ \E i \in 1..Len(container["A"]) : RemoveClick("A", i, "ok")
  \/ \E p \in 1..Len(passes["A"]) :
       \E i \in 1..Len(passes["A"][p].slots), ok \in BOOLEAN : FetchDone("A", p, i, ok, "ok")

SpecOrder == InitOrder /\ [][NextOrder]_vars

\* The tab on the saved-items page, with items added through the public
\* method: among them two objects with the id 0.
NextPass ==
  \/ \E product \in {P0a, P0b, P1} : ApiAdd("A", product, "ok", 0)
  \/ PageLoad("A")
  \/ \E p \in 1..Len(passes["A"]) :
       \E i \in 1..Len(passes["A"][p].slots), ok \in BOOLEAN : FetchDone("A", p, i, ok, "ok")

SpecPass == Init /\ [][NextPass]_vars

\* The tab on the saved-items page, with items whose handle cannot be
\* resolved beside an item of the catalog's product.
NextBare ==
  \/ \E product \in {P0x, P2x, P0b} : ApiAdd("A", product, "ok", 0)
  \/ PageLoad("A")
  \/ \E p \in 1..Len(passes["A"]) :
       \E i \in 1..Len(passes["A"][p].slots), ok \in BOOLEAN : FetchDone("A", p, i, ok, "ok")

SpecBare == Init /\ [][NextBare]_vars

\* The tab on the saved-items page over a saved list, where the user changes
\* the options of the items shown: two items of one product, or two items
\* with the id 0.
SelectLists ==
  { <<NewItem([now |-> 0], P1), NewItem([now |-> 0], P2q)>>,
    <<NewItem([now |-> 0], P0a), NewItem([now |-> 0], P0b)>> }

InitSelect ==
  InitPages([t \in Tabs |-> IF t = "A" THEN "wishlist" ELSE "closed"],
            {JsonStringify(list) : list \in SelectLists}, FALSE)

PickedValues == {"S", "M", "Red", "Blue"}

NextSelect ==
  \/ PageLoad("A")
  \/ \E p \in 1..Len(passes["A"]) :
       \E i \in 1..Len(passes["A"][p].slots), ok \in BOOLEAN : FetchDone("A", p, i, ok, "ok")
  \/ \E i \in 1..Len(container["A"]), index \in 1..2, v \in PickedValues :
       OptionChange("A", i, index, v, "ok")

SpecSelect == InitSelect /\ [][NextSelect]_vars

\* The saved-items page rendered again after a pass, with a catalog that
\* answers every request with the same data.  The stored items carry the
\* variants 10 and 12, or the sold-out variant 11 and the id of no variant.
AgainLists ==
  { <<NewItem([now |-> 0], P1), NewItem([now |-> 0], P2q)>>,
    <<[NewItem([now |-> 0], P1) EXCEPT !.variant_id = Str(<<"11">>)],
      [NewItem([now |-> 0], P2q) EXCEPT !.variant_id = Num("99")]>> }

InitAgain ==
  InitPages([t \in Tabs |-> IF t = "A" THEN "wishlist" ELSE "closed"],
            {JsonStringify(list) : list \in AgainLists}, FALSE)

NextAgain ==
  \/ PageLoad("A")
  \/ \E p \in 1..Len(passes["A"]) :
       \E i \in 1..Len(passes["A"][p].slots) : FetchDone("A", p, i, TRUE, "ok")
  \/ \E i \in 1..Len(container["A"]), index \in 1..2, v \in PickedValues :
       OptionChange("A", i, index, v, "ok")
  \/ RenderCall("A")

SpecAgain == InitAgain /\ [][NextAgain]_vars

\* The handler of an option change, called as a method: with the data of the
\* catalog's product, with its variants all sold out, and with the data of a
\* product that has no variants.
SoldOut(productData) ==
  [productData EXCEPT !.variants = [k \in 1..Len(@) |-> [@[k] EXCEPT !.available = FALSE]]]

CallData ==
  { Catalog("alpha"), SoldOut(Catalog("alpha")), [Catalog("alpha") EXCEPT !.variants = <<>>] }

NextCall ==
  \/ NextSelect
  \/ \E i \in 1..Len(container["A"]), productData \in CallData :
       SelectionCall("A", i, productData, "ok")

SpecCall == InitSelect /\ [][NextCall]_vars

\* Two tabs over one slot: tab A shows the saved-items view and tab B another
\* page of the shop.  Both start on the empty list or on a saved item; the
\* user clicks wishlist buttons in both, removes items in the view of tab A,
\* and the storage events and the catalog requests arrive in any order.
SyncLists == {<<>>, <<NewItem([now |-> 0], P1)>>}

InitSync ==
  InitPages([t \in Tabs |-> IF t = "A" THEN "wishlist" ELSE "other"],
            {JsonStringify(list) : list \in SyncLists}, FALSE)

NextSync ==
  \/ \E t \in Tabs, product \in ButtonProducts : ButtonClick(t, product, "ok", 0)
  \/ \E i \in 1..Len(container["A"]) : RemoveClick("A", i, "ok")
  \/ \E t \in Tabs : StorageEvent(t, "ok")
  \/ \E p \in 1..Len(passes["A"]) :
       \E i \in 1..Len(passes["A"][p].slots), ok \in BOOLEAN : FetchDone("A", p, i, ok, "ok")

SpecSync == InitSync /\ [][NextSync]_vars

\* Two tabs that show the saved-items view of one saved list and are left
\* alone by the user: their catalog requests are answered, before or after
\* the shop has changed a price, and their storage events are delivered.
DriftLists ==
  { <<NewItem([now |-> 0], P1)>>,
    <<NewItem([now |-> 0], P1), NewItem([now |-> 0], P2q)>> }

InitDrift ==
  InitPages([t \in Tabs |-> "wishlist"], {JsonStringify(list) : list \in DriftLists}, FALSE)

Deliver(t) == StorageEvent(t, "ok")

Answered(t) ==
  \E p \in 1..Len(passes[t]) : \E i \in 1..Len(passes[t][p].slots) :
    \/ \E ok \in BOOLEAN : FetchDone(t, p, i, ok, "ok")
    \/ FetchLater(t, p, i, "ok")

NextDrift == \E t \in Tabs : Deliver(t) \/ Answered(t)

SpecDrift == InitDrift /\ [][NextDrift]_vars

(***************************************************************************)
(* The picker functions on their own: findVariantByOptions and             *)
(* updateVariantOptionAvailability, called with the variants of a product  *)
(* with two options and with the values of its two selects.                *)
(***************************************************************************)
\* The option values a variant may have; one kind of variant has no value
\* for the second option.
OptionValues == {<<"A", "Red">>, <<"A", "Blue">>, <<"B", "Red">>, <<"B", "Blue">>, <<"A">>}

VariantPool == [options : OptionValues, available : BOOLEAN]

RECURSIVE ListsUpTo(_, _)
ListsUpTo(S, n) ==
  IF n = 0 THEN {<<>>}
  ELSE ListsUpTo(S, n - 1)
         \cup {Append(l, x) : l \in {m \in ListsUpTo(S, n - 1) : Len(m) = n - 1}, x \in S}

\* The product with the variants vs in catalog order; the id of a variant
\* is its position.
PickerData(vs) ==
  ProductData("alpha",
    <<[name |-> "Size", values |-> <<>>], [name |-> "Color", values |-> <<>>]>>,
    [k \in 1..Len(vs) |->
       Variant(Num(ToString(k)), vs[k].available, "1000", vs[k].options, <<>>)],
    <<>>)

\* The values of the two selects: a value each, or none.
Selections ==
  { <<a, b>> : a \in {Undefined, Str(<<"A">>), Str(<<"B">>)},
               b \in {Undefined, Str(<<"Red">>), Str(<<"Blue">>)} }

\* select.value = v: the select shows v when it has an option with the value.
Chosen(select, v) ==
  [select EXCEPT !.value = IF v # Undefined
                                /\ \E k \in 1..Len(select.options) :
                                     select.options[k].value = v.v[1]
                             THEN v.v[1] ELSE ""]

\* The selects of the picker of productData, showing the values of selection.
SelectsShowing(productData, selection) ==
  [index \in 1..Len(buildVariantPickerHtml(productData, NoVariant)) |->
     Chosen(buildVariantPickerHtml(productData, NoVariant)[index], selection[index])]

PickerInput(productData, selection) ==
  [NoPicker EXCEPT !.op = "input", !.productData = productData,
                   !.selectedValues = selection,
                   !.before = SelectsShowing(productData, selection),
                   !.selects = SelectsShowing(productData, selection)]

InitPicker ==
  /\ \E c \in {[t \in Tabs |-> Constructed("closed", AbsentPayload)]} :
       /\ page = [t \in Tabs |-> "closed"]
       /\ storage = AbsentPayload
       /\ items = [t \in Tabs |-> c[t].items]
       /\ heap = [t \in Tabs |-> c[t].heap]
       /\ productCache = [t \in Tabs |-> c[t].cache]
       /\ wishlistProductData = [t \in Tabs |-> c[t].pstate]
       /\ passes = [t \in Tabs |-> c[t].passes]
       /\ container = [t \in Tabs |-> c[t].container]
       /\ emptyHidden = [t \in Tabs |-> c[t].emptyHidden]
       /\ counter = [t \in Tabs |-> c[t].counter]
       /\ buttons = [t \in Tabs |-> c[t].buttons]
  /\ queue = [t \in Tabs |-> <<>>]
  /\ last = [op |-> "init", tab |-> "", ret |-> FALSE, writes |-> 0,
             failed |-> FALSE, renders |-> 0, raised |-> FALSE]
  /\ hist = [on |-> FALSE, trail |-> <<>>, origin |-> <<>>]
  /\ \E vs \in ListsUpTo(VariantPool, MaxVariants), selection \in Selections :
       trial = PickerInput(PickerData(vs), selection)

\* findVariantByOptions is called with the variants and the selection.
FindVariant ==
  /\ trial.op = "input"
  /\ trial' = [trial EXCEPT !.op = "find",
                              !.found = findVariantByOptions(trial.productData.variants,
                                                             trial.selectedValues)]
  /\ UNCHANGED <<items, heap, productCache, wishlistProductData, passes, container,
                 emptyHidden, counter, buttons, storage, queue, page, last, hist>>

Recomputed(updated) ==
  [trial EXCEPT !.op = "update", !.selects = updated.selects, !.values = updated.values]

\* updateVariantOptionAvailability is called on the selects.
Recompute ==
  /\ trial.op = "input"
  /\ trial' = Recomputed(updateVariantOptionAvailability(trial.selects, trial.productData))
  /\ UNCHANGED <<items, heap, productCache, wishlistProductData, passes, container,
                 emptyHidden, counter, buttons, storage, queue, page, last, hist>>

\* setSelectValues is called with a variant of the product on the selects
\* that updateVariantOptionAvailability has left.
SetValues(variant) ==
  /\ trial.op = "update"
  /\ trial' = [trial EXCEPT !.op = "set", !.found = variant, !.before = trial.selects,
                              !.selects = setSelectValues(trial.selects, trial.productData,
                                                          variant)]
  /\ UNCHANGED <<items, heap, productCache, wishlistProductData, passes, container,
                 emptyHidden, counter, buttons, storage, queue, page, last, hist>>

NextPicker ==
  \/ FindVariant
  \/ Recompute
  \/ \E k \in 1..Len(trial.productData.variants) : SetValues(trial.productData.variants[k])

SpecPicker == InitPicker /\ [][NextPicker]_vars

(***************************************************************************)
(* prepareWishlistItem on its own: called for a saved item whose catalog    *)
(* request has settled, with data of products with no, one or two options  *)
(* and with no data.                                                       *)
(***************************************************************************)
\* productData with the first n of its options.
WithOptions(productData, n) ==
  [productData EXCEPT
     !.options = SubSeq(@, 1, n),
     !.variants = [k \in 1..Len(@) |->
                     [@[k] EXCEPT !.options = SubSeq(@, 1, Min({n, Len(@)}))]]]

MaxListed == 2

FlagData ==
  {NoProductData}
    \cup {WithOptions(PickerData(vs), n) : vs \in ListsUpTo(VariantPool, MaxListed), n \in 0..2}

\* The saved items: as add() stores them, and one stored as unavailable.
FlagItems ==
  { NewItem([now |-> 0], P1), [NewItem([now |-> 0], P1) EXCEPT !.available = Bool(FALSE)] }

\* A tab that has loaded the list with the one item.
Holding(item) == LoadItems(Blank("wishlist", JsonStringify(<<item>>)))

InitFlag ==
  /\ \E c \in {[t \in Tabs |-> Constructed("closed", AbsentPayload)]} :
       /\ page = [t \in Tabs |-> "closed"]
       /\ storage = AbsentPayload
       /\ items = [t \in Tabs |-> c[t].items]
       /\ heap = [t \in Tabs |-> c[t].heap]
       /\ productCache = [t \in Tabs |-> c[t].cache]
       /\ wishlistProductData = [t \in Tabs |-> c[t].pstate]
       /\ passes = [t \in Tabs |-> c[t].passes]
       /\ container = [t \in Tabs |-> c[t].container]
       /\ emptyHidden = [t \in Tabs |-> c[t].emptyHidden]
       /\ counter = [t \in Tabs |-> c[t].counter]
       /\ buttons = [t \in Tabs |-> c[t].buttons]
  /\ queue = [t \in Tabs |-> <<>>]
  /\ last = [op |-> "init", tab |-> "", ret |-> FALSE, writes |-> 0,
             failed |-> FALSE, renders |-> 0, raised |-> FALSE]
  /\ hist = [on |-> FALSE, trail |-> <<>>, origin |-> <<>>]
  /\ \E productData \in FlagData, item \in FlagItems :
       trial = [op |-> "input", productData |-> productData, item |-> item,
                result |-> NoResult]

\* prepareWishlistItem is called for the item with the data.
PrepareItem ==
  /\ trial.op = "input"
  /\ trial' = [trial EXCEPT !.op = "prepare",
                              !.result = prepareWishlistItem(Holding(trial.item), 1,
                                                             trial.productData).result]
  /\ UNCHANGED <<items, heap, productCache, wishlistProductData, passes, container,
                 emptyHidden, counter, buttons, storage, queue, page, last, hist>>

NextFlag == PrepareItem

SpecFlag == InitFlag /\ [][NextFlag]_vars

(***************************************************************************)
(* The gallery functions on their own: collectWishlistGalleryImages and    *)
(* buildWishlistGalleryHtml, called with the images of a product, a       *)
(* selected variant and a stored image.                                    *)
(***************************************************************************)
\* Image sources: five images; one of them also with a query and as an
\* absolute URL.
ImageA == <<"//", "cdn/a.jpg">>
ImageAv == <<"//", "cdn/a.jpg", "?", "v=", "2">>
ImageAabs == <<"https:", "//", "cdn/a.jpg">>
ImageB == <<"//", "cdn/b.jpg">>
ImageC == <<"//", "cdn/c.jpg">>
ImageD == <<"//", "cdn/d.jpg">>
ImageE == <<"//", "cdn/e.jpg">>

MediaEntry(variantId, src) == [variantId |-> <<variantId>>, src |-> src]

\* variantMedia: no entries, one entry, or an entry each for the variants 1
\* and 2, in either order.
MediaLists ==
  {<<>>}
    \cup {<<MediaEntry(id, src)>> : id \in {"1", "2"}, src \in {ImageA, ImageAv, ImageB}}
    \cup {<<MediaEntry(id, a), MediaEntry(IF id = "1" THEN "2" ELSE "1", b)>> :
            id \in {"1", "2"}, a \in {ImageA, ImageB}, b \in {ImageAv, ImageB, ImageC}}

ImageLists == {<<>>, <<ImageA>>, <<ImageC>>, <<ImageB, ImageC>>, <<ImageAabs, ImageA>>}

GalleryData(variantMedia, featuredMedia, featuredImage, images) ==
  [ present |-> TRUE, variantMedia |-> variantMedia, featuredMedia |-> featuredMedia,
    featuredImage |-> featuredImage, images |-> images ]

GalleryInputs ==
  [ productData : {GalleryData(m, fm, fi, im) :
                     m \in MediaLists, fm \in {<<>>, ImageA, ImageD},
                     fi \in {<<>>, ImageAv, ImageB, ImageE}, im \in ImageLists},
    selectedVariant : {NoVariant} \cup {Variant(Num("1"), TRUE, "1000", <<>>, img) :
                                          img \in {<<>>, ImageA, ImageB}},
    fallbackImage : {Undefined, Str(ImageA), Str(ImageC)},
    showSecondImageOnHover : BOOLEAN ]
    \cup [ productData : {[GalleryData(<<>>, <<>>, <<>>, <<>>) EXCEPT !.present = FALSE]},
           selectedVariant : {NoVariant},
           fallbackImage : {Undefined, Str(ImageA)},
           showSecondImageOnHover : BOOLEAN ]

InitGallery ==
  /\ \E c \in {[t \in Tabs |-> Constructed("closed", AbsentPayload)]} :
       /\ page = [t \in Tabs |-> "closed"]
       /\ storage = AbsentPayload
       /\ items = [t \in Tabs |-> c[t].items]
       /\ heap = [t \in Tabs |-> c[t].heap]
       /\ productCache = [t \in Tabs |-> c[t].cache]
       /\ wishlistProductData = [t \in Tabs |-> c[t].pstate]
       /\ passes = [t \in Tabs |-> c[t].passes]
       /\ container = [t \in Tabs |-> c[t].container]
       /\ emptyHidden = [t \in Tabs |-> c[t].emptyHidden]
       /\ counter = [t \in Tabs |-> c[t].counter]
       /\ buttons = [t \in Tabs |-> c[t].buttons]
  /\ queue = [t \in Tabs |-> <<>>]
  /\ last = [op |-> "init", tab |-> "", ret |-> FALSE, writes |-> 0,
             failed |-> FALSE, renders |-> 0, raised |-> FALSE]
  /\ hist = [on |-> FALSE, trail |-> <<>>, origin |-> <<>>]
  /\ \E in \in GalleryInputs :
       trial = [op |-> "input", in |-> in, images |-> <<>>, html |-> <<>>]

\* collectWishlistGalleryImages is called.
CollectImages ==
  /\ trial.op = "input"
  /\ trial' = [trial EXCEPT !.op = "collect",
                              !.images = collectWishlistGalleryImages(
                                           trial.in.productData, trial.in.selectedVariant,
                                           trial.in.fallbackImage)]
  /\ UNCHANGED <<items, heap, productCache, wishlistProductData, passes, container,
                 emptyHidden, counter, buttons, storage, queue, page, last, hist>>

\* buildWishlistGalleryHtml is called with the same arguments.
BuildGallery ==
  /\ trial.op = "collect"
  /\ trial' = [trial EXCEPT !.op = "build",
                              !.html = buildWishlistGalleryHtml(
                                         trial.in.productData, trial.in.selectedVariant,
                                         [url |-> EmptyStr,
                                          fallbackImage |-> trial.in.fallbackImage],
                                         trial.in.showSecondImageOnHover)]
  /\ UNCHANGED <<items, heap, productCache, wishlistProductData, passes, container,
                 emptyHidden, counter, buttons, storage, queue, page, last, hist>>

NextGallery == CollectImages \/ BuildGallery

SpecGallery == InitGallery /\ [][NextGallery]_vars

(***************************************************************************)
(* The variant that prepareWishlistItem resolves for a saved item: the     *)
(* item carries the id of a variant of the product, as a string or as a    *)
(* number, the id of no variant, or no id.                                 *)
(***************************************************************************)
VariantData ==
  {NoProductData} \cup {PickerData(vs) : vs \in ListsUpTo(VariantPool, MaxListed)}

VariantItems ==
  { [NewItem([now |-> 0], P1) EXCEPT !.variant_id = id] :
      id \in {Str(<<"1">>), Num("2"), Str(<<"9">>), Undefined} }

InitVariant ==
  /\ \E c \in {[t \in Tabs |-> Constructed("closed", AbsentPayload)]} :
       /\ page = [t \in Tabs |-> "closed"]
       /\ storage = AbsentPayload
       /\ items = [t \in Tabs |-> c[t].items]
       /\ heap = [t \in Tabs |-> c[t].heap]
       /\ productCache = [t \in Tabs |-> c[t].cache]
       /\ wishlistProductData = [t \in Tabs |-> c[t].pstate]
       /\ passes = [t \in Tabs |-> c[t].passes]
       /\ container = [t \in Tabs |-> c[t].container]
       /\ emptyHidden = [t \in Tabs |-> c[t].emptyHidden]
       /\ counter = [t \in Tabs |-> c[t].counter]
       /\ buttons = [t \in Tabs |-> c[t].buttons]
  /\ queue = [t \in Tabs |-> <<>>]
  /\ last = [op |-> "init", tab |-> "", ret |-> FALSE, writes |-> 0,
             failed |-> FALSE, renders |-> 0, raised |-> FALSE]
  /\ hist = [on |-> FALSE, trail |-> <<>>, origin |-> <<>>]
  /\ \E productData \in VariantData, item \in VariantItems :
       trial = [op |-> "input", productData |-> productData,
                item |-> Holding(item).heap[1], result |-> NoResult,
                after |-> Holding(item).heap[1]]

\* prepareWishlistItem is called for the loaded item with the data.
ResolveVariant ==
  /\ trial.op = "input"
  /\ \E r \in {prepareWishlistItem(Holding(trial.item), 1, trial.productData)} :
       trial' = [trial EXCEPT !.op = "prepare", !.result = r.result, !.after = r.W.heap[1]]
  /\ UNCHANGED <<items, heap, productCache, wishlistProductData, passes, container,
                 emptyHidden, counter, buttons, storage, queue, page, last, hist>>

NextVariant == ResolveVariant

SpecVariant == InitVariant /\ [][NextVariant]_vars

(***************************************************************************)
(* The image and the gallery of one resolution: prepareWishlistItem        *)
(* resolves the image it saves on the item and builds the gallery from     *)
(* the same product data and variant.                                      *)
(***************************************************************************)
\* imageUrl and galleryMarkup of prepareWishlistItem
ResolvedImages(productData, selectedVariant, image, showSecondImageOnHover) ==
  [ imageUrl |-> resolveProductImage(productData, selectedVariant, image),
    galleryMarkup |->
      buildWishlistGalleryHtml(
        productData, selectedVariant,
        [url |-> EmptyStr,
         fallbackImage |-> OrElse(resolveProductImage(productData, selectedVariant, image),
                                  image)],
        showSecondImageOnHover) ]

\* A resolved item: product data, a selected variant with or without an
\* image of its own, and the image the item is stored with.
ResolveInputs ==
  [ productData : {GalleryData(m, fm, fi, im) :
                     m \in MediaLists, fm \in {<<>>, ImageA, ImageD},
                     fi \in {<<>>, ImageAv, ImageB, ImageE}, im \in ImageLists},
    selectedVariant : {Variant(Num("1"), TRUE, "1000", <<>>, img) : img \in {<<>>, ImageA, ImageB}},
    image : {Undefined, Str(ImageA), Str(ImageC)},
    showSecondImageOnHover : BOOLEAN ]

InitResolve ==
  /\ \E c \in {[t \in Tabs |-> Constructed("closed", AbsentPayload)]} :
       /\ page = [t \in Tabs |-> "closed"]
       /\ storage = AbsentPayload
       /\ items = [t \in Tabs |-> c[t].items]
       /\ heap = [t \in Tabs |-> c[t].heap]
       /\ productCache = [t \in Tabs |-> c[t].cache]
       /\ wishlistProductData = [t \in Tabs |-> c[t].pstate]
       /\ passes = [t \in Tabs |-> c[t].passes]
       /\ container = [t \in Tabs |-> c[t].container]
       /\ emptyHidden = [t \in Tabs |-> c[t].emptyHidden]
       /\ counter = [t \in Tabs |-> c[t].counter]
       /\ buttons = [t \in Tabs |-> c[t].buttons]
  /\ queue = [t \in Tabs |-> <<>>]
  /\ last = [op |-> "init", tab |-> "", ret |-> FALSE, writes |-> 0,
             failed |-> FALSE, renders |-> 0, raised |-> FALSE]
  /\ hist = [on |-> FALSE, trail |-> <<>>, origin |-> <<>>]
  /\ \E in \in ResolveInputs :
       trial = [op |-> "input", in |-> in, imageUrl |-> EmptyStr, slides |-> <<>>]

\* The item is resolved: its image and its gallery.
ResolveImages ==
  /\ trial.op = "input"
  /\ \E r \in {ResolvedImages(trial.in.productData, trial.in.selectedVariant,
                                trial.in.image, trial.in.showSecondImageOnHover)} :
       trial' = [trial EXCEPT !.op = "resolve", !.imageUrl = r.imageUrl,
                                !.slides = r.galleryMarkup.slides]
  /\ UNCHANGED <<items, heap, productCache, wishlistProductData, passes, container,
                 emptyHidden, counter, buttons, storage, queue, page, last, hist>>

NextResolve == ResolveImages

SpecResolve == InitResolve /\ [][NextResolve]_vars

(***************************************************************************)
(* The claims.                                                             *)
(***************************************************************************)
\* The ids of the list of tab t, in their string form and in list order.
Ids(t) == [i \in 1..Len(items[t]) |-> JsString(heap[t][items[t][i]].id).v]

\* getItems of tab t, by value
ItemsOf(t) == [i \in 1..Len(items[t]) |-> heap[t][items[t][i]]]

\* C1: in every tab the in-memory list holds at most one entry per product
\* id, ids compared by their string form.
C1_OneEntryPerId ==
  \A t \in Tabs : \A i, j \in 1..Len(items[t]) : Ids(t)[i] = Ids(t)[j] => i = j

\* The records that the references its of the heap hp name, in order.
ItemsIn(its, hp) == [i \in 1..Len(its) |-> hp[its[i]]]

\* C2: a storage event for the wishlist key replaces the list of the tab by
\* the list that the slot holds, whatever the tab held, and then re-runs the
\* button update, the counter update and renderWishlistPage, without a write;
\* a storage event for another key leaves the tab as it is.
C2_StorageEventReloads ==
  [][ /\ last'.op = "storage" =>
           /\ ItemsIn(items'[last'.tab], heap'[last'.tab]) = loadFromStorage(storage).items
           /\ counter'[last'.tab] = Len(loadFromStorage(storage).items)
           /\ buttons'[last'.tab] =
                {b \in ButtonIds :
                   \E i \in 1..Len(loadFromStorage(storage).items) :
                     JsString(loadFromStorage(storage).items[i].id).v = b}
           /\ last'.renders = 1
           /\ last'.writes = 0
           /\ storage' = storage
      /\ last'.op = "otherKey" =>
           /\ items' = items /\ heap' = heap /\ counter' = counter /\ buttons' = buttons
           /\ last'.renders = 0
           /\ storage' = storage ]_vars

\* C2, witness: tab B held a list of its own, and the storage event of a write
\* of tab A has left it with the list of the slot, which is that of tab A.
C2_Reloaded ==
  /\ last.op = "storage" /\ last.tab = "B"
  /\ Len(items["B"]) = 2
  /\ ItemsOf("B") = ItemsOf("A")
  /\ ItemsOf("B") = loadFromStorage(storage).items

\* C3: the result of a fetch that was in flight when its item was removed is
\* not attached to the page.  A remove click, clear or a storage event has
\* rendered the list as it now is while an older pass was waiting; when the
\* next thing to happen is a fetch that settles the last waiting pass, every
\* element of the container belongs to an item of the list, in list order,
\* and the empty state is shown exactly when the list is empty.
C3_RemovedItemNotAttached ==
  [][ /\ last.op \in {"removeClick", "clear", "storage"}
      /\ last.renders = 1
      /\ last'.op = "fetch"
      /\ passes'["A"] = <<>>
      => /\ [i \in 1..Len(container'["A"]) |-> container'["A"][i].key]
              = [j \in 1..Len(items'["A"]) |-> JsString(heap'["A"][items'["A"][j]].id).v]
         /\ emptyHidden'["A"] <=> items'["A"] # <<>> ]_vars

\* The entries of list whose id has another string form than id.
Without(list, id) == SelectSeq(list, LAMBDA x : JsString(x.id) # JsString(id))

\* The scenario is two calls of toggle with the same product id.
ToggledTwice ==
  /\ Len(hist.trail) = 2
  /\ hist.trail[1] = hist.trail[2]
  /\ hist.trail[1][1] = "toggle"

\* C4 as claimed: two calls of toggle with the same product id leave the list
\* with its original contents and order, whether or not it held the id.  It
\* is stated for the ids that contains can find; with a falsy id it fails by
\* the defect of C1 as well.
C4_ToggleTwiceRestores ==
  ToggledTwice /\ Truthy(hist.trail[1][2]) => ItemsOf("A") = hist.origin

\* C4 as amended: when the list did not hold the id, two calls of toggle
\* leave the list as it was; when it held the id, the other entries keep
\* their order and the product is one entry at the end of the list; with an
\* id that is falsy each call appends one entry with that id.
C4_ToggleTwice ==
  ToggledTwice =>
    IF ~Truthy(hist.trail[1][2])
      THEN /\ Len(ItemsOf("A")) = Len(hist.origin) + 2
           /\ SubSeq(ItemsOf("A"), 1, Len(hist.origin)) = hist.origin
           /\ \A i \in Len(hist.origin) + 1 .. Len(hist.origin) + 2 :
                ItemsOf("A")[i].id = hist.trail[1][2]
    ELSE IF Without(hist.origin, hist.trail[1][2]) # hist.origin
      THEN /\ Len(ItemsOf("A")) = Len(Without(hist.origin, hist.trail[1][2])) + 1
           /\ SubSeq(ItemsOf("A"), 1, Len(ItemsOf("A")) - 1)
                = Without(hist.origin, hist.trail[1][2])
           /\ ItemsOf("A")[Len(ItemsOf("A"))].id = hist.trail[1][2]
    ELSE ItemsOf("A") = hist.origin

\* C4, witness: the list held the product as the first of two entries, and
\* after the two calls the product is the last entry.
C4_MovedToTheEnd ==
  /\ ToggledTwice
  /\ Len(hist.origin) = 2
  /\ hist.origin[1].id = hist.trail[1][2]
  /\ ItemsOf("A") = <<hist.origin[2], hist.origin[1]>>

\* A record of the shape the typedef WishlistItem gives: id a string or a
\* number, the texts strings, available a boolean, variant_id and added_at of
\* their types or left out.
WellFormed(item) ==
  /\ item.id.t \in {"string", "number"} /\ item.id.v # <<"NaN">>
  /\ \A f \in {"title", "image", "url", "price", "handle"} : item[f].t = "string"
  /\ item.available.t = "boolean"
  /\ item.variant_id.t \in {"string", "number", "undefined"} /\ item.variant_id.v # <<"NaN">>
  /\ item.added_at.t \in {"string", "undefined"}

AllWellFormed(list) == \A i \in 1..Len(list) : WellFormed(list[i])

\* The handler that ran last in tab A wrote the list, and the write succeeded.
SavedByA ==
  /\ last.tab = "A" /\ last.op \in {"click", "removeClick", "clear", "fetch", "load", "storage"}
  /\ last.writes > 0 /\ ~last.failed

\* C5: when a list of well-formed records has been saved successfully, load
\* of the stored payload yields the same records, in the same order, with
\* equal values in every field.
C5_SaveLoadRoundTrip ==
  SavedByA /\ AllWellFormed(ItemsOf("A"))
    => loadFromStorage(storage).items = ItemsOf("A")

\* C5 witness: a saved list of two well-formed records, one of them resolved
\* against the catalog, that load gives back.
C5_RoundTripOfTwo ==
  /\ SavedByA /\ AllWellFormed(ItemsOf("A")) /\ Len(ItemsOf("A")) = 2
  /\ \E i \in 1..2 : ItemsOf("A")[i].variant_id.t = "number"
  /\ loadFromStorage(storage).items = ItemsOf("A")

\* The handler that ran last changed the list of tab A: add of a new id,
\* remove of a present id, toggle (also behind a wishlist button), clear.
Mutated ==
  /\ last.tab = "A"
  /\ \/ last.op \in {"add", "remove"} /\ last.ret
     \/ last.op \in {"toggle", "click", "clear"}

\* The buttons and counters of tab A show its list.
ButtonsShowList ==
  buttons["A"] = {b \in ButtonIds : \E i \in 1..Len(Ids("A")) : Ids("A")[i] = b}

CountersShowList == counter["A"] = Len(items["A"])

C7_WriteFailureIsSwallowed ==
  [][last'.failed /\ last'.tab = "A" =>
       /\ ~last'.raised
       /\ last'.writes = 1
       /\ storage' = storage
       /\ last'.op \in {"click", "clear"}
       /\ last'.op = "clear" => items'["A"] = <<>>
       /\ last'.op = "click" =>
            Len(items'["A"]) = Len(items["A"]) + (IF last'.ret THEN 1 ELSE -1)]_vars

\* C7 witness: a click added a second product while the write failed; the
\* list in memory holds two entries and the slot still holds the old list.
C7_FailedWriteKeptInMemory ==
  /\ last.op = "click" /\ last.tab = "A" /\ last.failed /\ last.ret /\ ~last.raised
  /\ Len(items["A"]) = 2
  /\ Len(loadFromStorage(storage).items) = 1

\* A stored entry with the defaults the store grants: a missing available is
\* true, a missing handle is the empty string.
WithDefaults(fields) ==
  [fields EXCEPT !.available = IF @ = Undefined THEN Bool(TRUE) ELSE @,
                 !.handle = IF @ = Undefined THEN EmptyStr ELSE @]

StoredWellFormed(entry) == entry.k = "object" /\ WellFormed(WithDefaults(entry.f))

RECURSIVE WellFormedOf(_)
WellFormedOf(entries) ==
  IF entries = <<>> THEN <<>>
  ELSE IF StoredWellFormed(Head(entries))
    THEN <<WithDefaults(Head(entries).f)>> \o WellFormedOf(Tail(entries))
    ELSE WellFormedOf(Tail(entries))

\* Tab A has just loaded its list from a slot that holds a JSON array.
LoadedArray ==
  /\ last.tab = "A" /\ last.op \in {"load", "storage"} /\ last.writes = 0
  /\ storage.k = "array"

\* C8: load drops every stored entry that is not a well-formed record and
\* keeps every well-formed one, so the list after a load is the well-formed
\* entries of the payload.
C8_LoadDropsMalformed == LoadedArray => ItemsOf("A") = WellFormedOf(storage.arr)

\* C9: the load at start-up and the load of the storage listener let no
\* exception out, and when the slot is absent, holds no valid JSON or holds
\* JSON that is no array, the list they leave is empty.
C9_LoadNeverRaises ==
  last.tab = "A" /\ last.op \in {"load", "storage"} =>
    /\ ~last.raised
    /\ storage.k # "array" /\ last.writes = 0 => items["A"] = <<>> /\ counter["A"] = 0

\* C9 witness: the storage listener has reloaded from a slot that holds no
\* valid JSON and has left the empty list.
C9_ReloadedFromGarbage ==
  /\ last.tab = "A" /\ last.op = "storage" /\ ~last.raised
  /\ storage.k = "garbage" /\ items["A"] = <<>>

\* The string forms of the ids of a list of records, in list order.
IdsOf(list) == [i \in 1..Len(list) |-> JsString(list[i].id).v]

\* The ids without those equal to id, the others in their order.
RECURSIVE IdsWithout(_, _)
IdsWithout(ids, id) ==
  IF ids = <<>> THEN <<>>
  ELSE IF Head(ids) = id THEN IdsWithout(Tail(ids), id)
  ELSE <<Head(ids)>> \o IdsWithout(Tail(ids), id)

\* C10: the list is in insertion order.  A click that adds leaves the items
\* before it as they were and puts the new one last; a click that removes and
\* the remove button of the view take one id out and keep the others in their
\* order; a settled fetch, which resolves items in place, moves none; a page
\* load leaves the ids in the order of the stored array.
C10_InsertionOrder ==
  [][last'.tab = "A" =>
       /\ last'.op = "click" /\ last'.ret =>
            /\ Len(items'["A"]) = Len(items["A"]) + 1
            /\ SubSeq(ItemsOf("A")', 1, Len(items["A"])) = ItemsOf("A")
       /\ (last'.op = "click" /\ ~last'.ret) \/ (last'.op = "removeClick" /\ last'.ret) =>
            /\ Len(items'["A"]) = Len(items["A"]) - 1
            /\ \E i \in 1..Len(items["A"]) : Ids("A")' = IdsWithout(Ids("A"), Ids("A")[i])
       /\ last'.op = "fetch" => Ids("A")' = Ids("A")
       /\ last'.op = "load" => Ids("A")' = IdsOf(loadFromStorage(storage).items)
                              /\ IdsOf(loadFromStorage(storage').items) = Ids("A")']_vars

\* C10 witness: a list of three items in the order in which they were added,
\* the last of them by a click, the second resolved against the catalog.
C10_ThreeInOrder ==
  /\ last.tab = "A" /\ last.op = "click" /\ last.ret
  /\ Ids("A") = <<<<"0">>, <<"1">>, <<"2">>>>
  /\ ItemsOf("A")[2].variant_id.t = "number"

\* The list holds an entry whose id has the string form of id.
Holds(list, id) == \E i \in 1..Len(list) : JsString(list[i].id) = JsString(id)

\* The scenario is one call of op, and arg is the id it was given.
CalledOnce(op) == Len(hist.trail) = 1 /\ hist.trail[1][1] = op

\* C11: add of a product whose id the list holds, and remove of an id the
\* list does not hold, leave the list in memory and the stored list as they
\* were, write nothing, recompute nothing and return false.
C11_NoOps ==
  \/ CalledOnce("add") /\ Holds(hist.origin, hist.trail[1][2])
  \/ CalledOnce("remove") /\ ~Holds(hist.origin, hist.trail[1][2])
  => /\ ItemsOf("A") = hist.origin
     /\ storage = JsonStringify(hist.origin)
     /\ last.writes = 0 /\ last.renders = 0
     /\ ~last.ret

\* C12: on the empty list, add of product P (id 1, variant 10, available)
\* saves it, and a page load then holds P as saved; remove of id 1, given as
\* a number or as a string, empties the stored list, and a page load then
\* leaves the empty list, no item markup, and the empty state shown.
C12_EndToEnd ==
  [][/\ last'.op = "add" /\ items["A"] = <<>> =>
          /\ last'.ret
          /\ IdsOf(loadFromStorage(storage').items) = << <<"1">> >>
     /\ last'.op = "load" /\ last.op = "add" /\ last.ret =>
          /\ Ids("A")' = << <<"1">> >>
          /\ ItemsOf("A")'[1].variant_id = Str(<<"10">>)
          /\ ItemsOf("A")'[1].available = Bool(TRUE)
     /\ last'.op = "remove" /\ items["A"] # <<>> =>
          /\ last'.ret
          /\ loadFromStorage(storage').items = <<>>
     /\ last'.op = "load" /\ last.op = "remove" /\ last.ret =>
          /\ items'["A"] = <<>>
          /\ container'["A"] = <<>>
          /\ ~emptyHidden'["A"]]_vars

\* C12 witness: the page has loaded the list that the removal left in the
\* slot; it is empty, the view holds no markup and shows the empty state.
C12_EmptyAfterRemoval ==
  /\ last.op = "load" /\ last.tab = "A"
  /\ storage = JsonStringify(<<>>)
  /\ items["A"] = <<>> /\ container["A"] = <<>> /\ ~emptyHidden["A"]

\* The keys of the elements of the saved-items view of tab A, in their order.
ViewKeys == [i \in 1..Len(container["A"]) |-> container["A"][i].key]

\* The slots of pass p of tab A whose fetch has not settled.
PendingOf(p) ==
  {i \in 1..Len(passes["A"][p].slots) : passes["A"][p].slots[i].st = "pending"}

\* The ids of the items pass p of tab A was started on, in list order.
SnapIds(p) ==
  [i \in 1..Len(passes["A"][p].snap) |-> JsString(heap["A"][passes["A"][p].snap[i]].id).v]

\* C13: a fetch that settles while another fetch of its pass is pending
\* leaves the markup of the view as it was; the fetch that settles last
\* replaces it by the markup of the items of the pass in list order,
\* whatever the order in which the fetches settled.
C13_FanInInListOrder ==
  [][last'.op = "fetch" =>
       IF Len(passes'["A"]) = Len(passes["A"])
         THEN container'["A"] = container["A"]
         ELSE \E p \in 1..Len(passes["A"]) :
                /\ Cardinality(PendingOf(p)) = 1
                /\ ViewKeys' = SnapIds(p)]_vars

\* C13 witness: a pass over two items, the second resolved against the
\* catalog and the first not, has placed both elements in list order.
C13_TwoPlacedInOrder ==
  /\ last.op = "fetch" /\ passes["A"] = <<>>
  /\ Len(container["A"]) = 2 /\ ViewKeys = Ids("A")
  /\ ~container["A"][1].picker /\ container["A"][2].picker

\* Slot i of pass p of tab A is the only one whose fetch has not settled.
LastOf(p, i) == PendingOf(p) = {i}

\* The data the catalog request of slot i of pass p settles with.
Answer(p, i, ok) == IF ok THEN Catalog(passes["A"][p].slots[i].handle) ELSE NoProductData

\* The resolution of some item of pass p has corrected its record, the item
\* of slot i being resolved with data.
SomeDirty(p, i, data) ==
  \/ \E j \in 1..Len(passes["A"][p].slots) :
       j # i /\ passes["A"][p].slots[j].res.storageDirty
  \/ Updated(heap["A"][passes["A"][p].snap[i]], data,
             SelectVariant(data, heap["A"][passes["A"][p].snap[i]])).changed

\* C14: a render pass writes the slot at most once: the step that settles
\* the last fetch of a pass writes once when the resolution of some item of
\* the pass corrected its record and not at all otherwise, and a step that
\* settles an earlier fetch does not write.
C14_OneSavePerPass ==
  [][\A p \in 1..Len(passes["A"]) : \A i \in PendingOf(p) : \A ok \in BOOLEAN :
       FetchDone("A", p, i, ok, "ok") =>
         last'.writes = IF LastOf(p, i) /\ SomeDirty(p, i, Answer(p, i, ok)) THEN 1 ELSE 0]_vars

\* The element el shows the markup html: the key, the price, the variant and
\* its availability, and whether it holds a picker.
RenderedAs(el, html) ==
  /\ el.key = html.key /\ el.price = html.price /\ el.variantId = html.variantId
  /\ el.available = html.available /\ el.picker = html.picker

\* The markup of an item from its stored fields alone, without a picker.
StoredMarkup(item) ==
  Markup(escapeHtml(item.id), escapeHtml(item.price),
         IF Truthy(item.variant_id) THEN item.variant_id.v ELSE <<>>,
         item.available # Bool(FALSE), FALSE)

\* The markup of an item resolved against data.
ResolvedMarkup(item, data) ==
  Markup(escapeHtml(item.id), formatMoney(SelectVariant(data, item).price).v,
         JsString(SelectVariant(data, item).id).v,
         SelectVariant(data, item).available, SelectVariant(data, item).available)

\* The item of slot i of pass p of tab A.
ItemOf(p, i) == heap["A"][passes["A"][p].snap[i]]

\* The slots of a pass of tab A that is started in this step.
StartedSlots == passes'["A"][Len(passes'["A"])].slots

\* C15: a pass leaves the request of every item that needs one pending at
\* once; a request that fails leaves the other requests of its pass
\* pending; and when the last request of a pass settles, every item whose
\* request failed is shown from its stored fields without a picker, and
\* every other item as it was resolved.
C15_FailureIsIsolated ==
  [][/\ (last'.op = "load" /\ Len(passes'["A"]) = 1) =>
          \A j \in 1..Len(StartedSlots) :
            Truthy(getProductHandle(heap'["A"][items'["A"][j]]))
              => StartedSlots[j].st = "pending"
     /\ \A p \in 1..Len(passes["A"]) : \A i \in PendingOf(p) : \A ok \in BOOLEAN :
          FetchDone("A", p, i, ok, "ok") =>
            IF LastOf(p, i)
              THEN \A j \in 1..Len(passes["A"][p].slots) :
                     IF j = i
                       THEN RenderedAs(container'["A"][j],
                                       IF ok THEN ResolvedMarkup(ItemOf(p, j), Answer(p, i, ok))
                                       ELSE StoredMarkup(ItemOf(p, j)))
                       ELSE RenderedAs(container'["A"][j], passes["A"][p].slots[j].res.html)
              ELSE /\ Len(passes'["A"]) = Len(passes["A"])
                   /\ \A j \in PendingOf(p) \ {i} : passes'["A"][p].slots[j].st = "pending"]_vars

\* The product cache of tab A holds nothing for h, or the catalog's data for h.
CachedFromCatalog(cache) ==
  \A h \in Handles : cache[h].present => cache[h] = Catalog(h)

\* C16: a catalog request that ends in a response that is not ok, in a
\* network error or in a malformed body raises nothing, resolves its item
\* without product data and leaves the product cache as it was; the cache
\* holds only data of the catalog; and a pass that is started while the
\* cache holds nothing for the handle of an item requests it again.
C16_FailedFetchNotCached ==
  [][/\ \A p \in 1..Len(passes["A"]) : \A i \in PendingOf(p) :
          FetchDone("A", p, i, FALSE, "ok") =>
            /\ ~last'.raised
            /\ productCache'["A"] = productCache["A"]
            /\ ~LastOf(p, i) => ~passes'["A"][p].slots[i].res.productData.present
            /\ LastOf(p, i) => RenderedAs(container'["A"][i], StoredMarkup(ItemOf(p, i)))
     /\ CachedFromCatalog(productCache'["A"])
     /\ (last'.op # "fetch" /\ Len(passes'["A"]) > Len(passes["A"])) =>
          \A j \in 1..Len(StartedSlots) :
            \A h \in Handles :
              (getProductHandle(heap'["A"][items'["A"][j]]) = Str(<<h>>)
                 /\ ~productCache'["A"][h].present)
                => StartedSlots[j] = PendingSlot(h)]_vars

\* C16 witness: the element of the catalog's product shows that its request
\* has failed, the cache holds nothing for its handle, and the pass started
\* by the removal of another item requests the handle again.
C16_RequestedAgain ==
  /\ last.op = "removeClick"
  /\ ~productCache["A"]["alpha"].present
  /\ \E e \in 1..Len(container["A"]) :
       container["A"][e].key = <<"1">> /\ ~container["A"][e].picker
  /\ Len(passes["A"]) = 1 /\ passes["A"][1].slots = <<PendingSlot("alpha")>>

\* C17: a pass requests the handle of an item only when the product cache
\* holds nothing for it, and the catalog never answers a request for a
\* handle whose data the cache already holds: no handle is fetched
\* successfully twice on one page.
C17_OneRequestPerHandle ==
  [][/\ Len(passes'["A"]) > Len(passes["A"]) =>
          \A j \in 1..Len(StartedSlots) :
            (StartedSlots[j].st = "pending" /\ StartedSlots[j].handle \in Handles)
              => ~productCache'["A"][StartedSlots[j].handle].present
     /\ \A p \in 1..Len(passes["A"]) : \A i \in PendingOf(p) :
          FetchDone("A", p, i, TRUE, "ok")
            => ~productCache["A"][passes["A"][p].slots[i].handle].present]_vars

\* The result of an item that was prepared without a request and without
\* product data.
BareResult(res, item) ==
  /\ ~res.productData.present /\ ~res.selectedVariant.present
  /\ ~res.storageDirty /\ ~res.shouldInitVariantPicker
  /\ res.html = StoredMarkup(item)

\* C18: an item without a resolvable handle is prepared when its pass starts,
\* without a request, without product data or a variant and without being
\* marked for the save of the pass; its record stays as it was loaded; and
\* when the markup of the pass is placed its element shows the stored
\* fields and holds no picker.
C18_NoHandleNoResolution ==
  [][/\ last'.op = "load" =>
          \A j \in 1..Len(items'["A"]) :
            ~Truthy(getProductHandle(heap'["A"][items'["A"][j]])) =>
              /\ heap'["A"][items'["A"][j]] = loadFromStorage(storage).items[j]
              /\ IF passes'["A"] = <<>>
                   THEN /\ last'.writes = 0
                        /\ container'["A"][j] = StoredMarkup(heap'["A"][items'["A"][j]])
                   ELSE /\ StartedSlots[j].st = "done"
                        /\ BareResult(StartedSlots[j].res, heap'["A"][items'["A"][j]])
     /\ \A p \in 1..Len(passes["A"]) : \A i \in PendingOf(p) : \A ok \in BOOLEAN :
          (FetchDone("A", p, i, ok, "ok") /\ LastOf(p, i)) =>
            \A j \in 1..Len(passes["A"][p].slots) :
              ~Truthy(getProductHandle(ItemOf(p, j))) =>
                /\ heap'["A"][items'["A"][j]] = ItemOf(p, j)
                /\ RenderedAs(container'["A"][j], StoredMarkup(ItemOf(p, j)))
                /\ container'["A"][j].selects = <<>>]_vars

\* The positions of the variants that have value v at every index where the
\* values T hold a value.
Matching(variants, T) ==
  {k \in 1..Len(variants) :
     \A index \in 1..Len(T) :
       T[index] # Undefined =>
         /\ index <= Len(variants[k].options)
         /\ variants[k].options[index] = T[index].v[1]}

\* C19: findVariantByOptions returns the first variant in catalog order
\* that has the selected value at every index where a value is selected,
\* an unselected index matching every variant; it returns none when no
\* variant matches.
C19_FirstMatchInCatalogOrder ==
  trial.op = "find" =>
    IF Matching(trial.productData.variants, trial.selectedValues) = {}
      THEN ~trial.found.present
      ELSE trial.found =
             trial.productData.variants[
               Min(Matching(trial.productData.variants, trial.selectedValues))]

\* C19 witness: among the variants A/Red, A/Blue, B/Red the selection of Red
\* alone has found A/Red, the first of the two variants that match.
C19_RedFindsTheFirst ==
  /\ trial.op = "find"
  /\ [k \in 1..Len(trial.productData.variants) |-> trial.productData.variants[k].options]
       = <<(<<"A", "Red">>), (<<"A", "Blue">>), (<<"B", "Red">>)>>
  /\ trial.selectedValues = <<Undefined, Str(<<"Red">>)>>
  /\ trial.found = trial.productData.variants[1]

\* The selection a value v of the select at index is tested with: v at index,
\* and at every other index the value its select shows at that time, which
\* is its value after the update before index and its value before the
\* update after index.
TestedWith(index, v) ==
  [j \in 1..Len(trial.values) |->
     IF j = index THEN Str(<<v>>)
     ELSE IF j < index THEN ValueOf(trial.selects[j].value)
     ELSE ValueOf(trial.before[j].value)]

\* The option optionEl is enabled and carries the id and the availability
\* of variant.
TaggedWith(optionEl, variant) ==
  /\ ~optionEl.disabled
  /\ optionEl.variantId = JsString(variant.id).v
  /\ optionEl.available = IF variant.available THEN "true" ELSE "false"

\* C20: after updateVariantOptionAvailability every value of every select
\* is disabled exactly when no variant matches the selection it was tested
\* with (the value itself at its index, the values the other selects showed
\* at that time elsewhere); a value with a match is enabled and carries the
\* id and the availability of the first match, sold out or not.
C20_DisabledWithoutMatch ==
  trial.op = "update" =>
    \A index \in 1..Len(trial.selects) :
      \A k \in 1..Len(trial.selects[index].options) :
        IF Matching(trial.productData.variants,
                    TestedWith(index, trial.selects[index].options[k].value)) = {}
          THEN trial.selects[index].options[k].disabled
          ELSE TaggedWith(trial.selects[index].options[k],
                          trial.productData.variants[
                            Min(Matching(trial.productData.variants,
                                         TestedWith(index,
                                                    trial.selects[index].options[k].value)))])

\* C20 witness: the update has disabled a value of the first select and has
\* left another of its values enabled that only a sold-out variant matches.
C20_SoldOutStaysEnabled ==
  /\ trial.op = "update" /\ Len(trial.selects) = 2
  /\ \E k \in 1..Len(trial.selects[1].options) : trial.selects[1].options[k].disabled
  /\ \E k \in 1..Len(trial.selects[1].options) :
       /\ ~trial.selects[1].options[k].disabled
       /\ trial.selects[1].options[k].available = "false"

\* C21: after updateVariantOptionAvailability and after setSelectValues no
\* select of the picker shows a disabled value: a select whose value is
\* missing or has become disabled shows the first value that is not disabled,
\* and no value when every value is disabled.
ShowsFirstEnabled(select) ==
  /\ select.value = FirstEnabled(select.options)
  /\ select.value = "" <=> \A k \in 1..Len(select.options) : select.options[k].disabled

ShowsEnabled(select) == select.value = "" \/ Selectable(select.options, select.value)

C21_NoDisabledSelection ==
  /\ trial.op \in {"update", "set"} =>
       \A index \in 1..Len(trial.selects) : ShowsEnabled(trial.selects[index])
  /\ trial.op = "update" =>
       \A index \in 1..Len(trial.selects) :
         IF Selectable(trial.selects[index].options, trial.before[index].value)
           THEN trial.selects[index].value = trial.before[index].value
           ELSE ShowsFirstEnabled(trial.selects[index])
  /\ trial.op = "set" =>
       \A index \in 1..Len(trial.selects) :
         IF index <= Len(trial.found.options)
              /\ Selectable(trial.selects[index].options, trial.found.options[index])
           THEN trial.selects[index].value = trial.found.options[index]
           ELSE ShowsFirstEnabled(trial.selects[index])

\* C21 (witness): the update has disabled the value a select showed, and the
\* select shows another value.
C21_SelectionMoved ==
  /\ trial.op = "update"
  /\ \E index \in 1..Len(trial.selects) :
       /\ trial.before[index].value # ""
       /\ ~Selectable(trial.selects[index].options, trial.before[index].value)
       /\ trial.selects[index].value \notin {"", trial.before[index].value}

\* The variant a call of the handler on selects finds for the selection it
\* has corrected.
MatchOf(selects, productData) ==
  findVariantByOptions(productData.variants,
                       updateVariantOptionAvailability(selects, productData).values)

\* v is the first variant in stock, or the first variant when none is.
FirstInStockOrFirst(variants, v) ==
  \E k \in 1..Len(variants) :
    /\ v = variants[k]
    /\ \/ variants[k].available /\ \A j \in 1..(k - 1) : ~variants[j].available
       \/ k = 1 /\ \A j \in 1..Len(variants) : ~variants[j].available

\* The place in the list of tab A of the item of the listener of element i.
PlaceOf(i) == CHOOSE k \in 1..Len(items["A"]) : items["A"][k] = container["A"][i].ref

\* C22: when the handler of an option change finds no variant for the
\* corrected selection, it applies the first variant in stock, or the first
\* variant when none is in stock; for a product without variants it applies
\* none: the button, the variant input and the selects of the item are
\* disabled, the input is empty, and the item is saved as unavailable with an
\* empty variant id.
C22_FallbackSelection ==
  [][\A i \in 1..Len(container["A"]) : \A productData \in CallData :
       (SelectionCall("A", i, productData, "ok")
          /\ ~MatchOf(container["A"][i].selects, productData).present) =>
         IF productData.variants # <<>>
           THEN \E k \in 1..Len(productData.variants) :
                  /\ FirstInStockOrFirst(productData.variants, productData.variants[k])
                  /\ container'["A"][i].variantId = JsString(productData.variants[k].id).v
                  /\ heap'["A"][items'["A"][PlaceOf(i)]].variant_id =
                       productData.variants[k].id
           ELSE /\ ~container'["A"][i].available
                /\ container'["A"][i].inputDisabled
                /\ container'["A"][i].variantId = <<>>
                /\ container'["A"][i].selectsDisabled
                /\ heap'["A"][items'["A"][PlaceOf(i)]] =
                     [heap["A"][items["A"][PlaceOf(i)]]
                        EXCEPT !.available = Bool(FALSE), !.variant_id = EmptyStr]
                /\ last'.writes = 1
                /\ storage' = JsonStringify(ItemsOf("A"))']_vars

\* C22 (witness): the handler has met a product without variants: the
\* controls of an item are disabled and the item is saved as unavailable
\* with an empty variant id.
C22_SavedAsUnavailable ==
  /\ last.op = "call"
  /\ \E i \in 1..Len(container["A"]) :
       /\ container["A"][i].selectsDisabled
       /\ ~container["A"][i].available
       /\ \E k \in 1..Len(items["A"]) :
            /\ JsString(ItemsOf("A")[k].id).v = container["A"][i].key
            /\ ItemsOf("A")[k].variant_id = EmptyStr
            /\ ItemsOf("A")[k].available = Bool(FALSE)
       /\ storage = JsonStringify(ItemsOf("A"))

\* The product state of item in tab A: what its last resolution or selection left.
StateOf(item) == wishlistProductData["A"][JsString(item.id).v]

\* The variant that the product state st names.
VariantOf(st) ==
  SelectSeq(Catalog(st.handle.v[1]).variants, LAMBDA v : v.id = st.variantId)[1]

\* The resolved variant of item is unavailable; for an item that is not
\* resolved the stored flag stands in.
Unavailable(item) ==
  IF StateOf(item).present THEN ~VariantOf(StateOf(item)).available
  ELSE item.available = Bool(FALSE)

\* C23: in the saved-items view the add-to-cart button and the variant input
\* of an item are disabled exactly when the resolved variant of the item is
\* unavailable, after every render pass and after every selection.
C23_DisabledWhenUnavailable ==
  \A i \in 1..Len(container["A"]) :
    /\ container["A"][i].inputDisabled = Unavailable(ItemsOf("A")[i])
    /\ ~container["A"][i].available = Unavailable(ItemsOf("A")[i])

\* The variant that element i of the view of tab A shows after this step.
ShownVariant(i) ==
  SelectSeq(Catalog("alpha").variants,
            LAMBDA v : JsString(v.id).v = container'["A"][i].variantId)[1]

\* The item at place k of the list of tab A before and after this step.
Before(k) == heap["A"][items["A"][k]]
After(k) == heap'["A"][items'["A"][k]]

\* The places in the list of tab A of the items of the listeners of element i.
PlacesOf(i) ==
  {k \in 1..Len(items["A"]) :
     \E n \in 1..Len(container["A"][i].refs) : container["A"][i].refs[n] = items["A"][k]}

\* The stored fields of item describe variant: its id, its availability, its
\* formatted price, its own image or else the image of the product, and the
\* URL of the product with the id of the variant as its only parameter.
Describes(item, variant) ==
  /\ item.variant_id = variant.id
  /\ item.available = Bool(variant.available)
  /\ item.price = Str(<<"$", variant.price, "/100">>)
  /\ item.image = Str(<<"https:">>
                        \o (IF variant.featuredImage # <<>> THEN variant.featuredImage
                            ELSE Catalog("alpha").featuredImage)
                        \o <<"?", "width=", "600">>)
  /\ item.url = Str(<<"/products/", "alpha", "?", "variant=">> \o variant.id.v)

\* C24: after the user has changed an option of an item, the variant id, the
\* availability, the price, the image and the URL of the saved item describe
\* the variant that was applied, its id, title and time of addition and the
\* order of the list are as before, and the slot holds the list.
C24_ItemDescribesVariant ==
  [][\A i \in 1..Len(container["A"]) : \A index \in 1..2 : \A v \in PickedValues :
       OptionChange("A", i, index, v, "ok") =>
         /\ Len(items'["A"]) = Len(items["A"])
         /\ storage' = JsonStringify(ItemsOf("A"))'
         /\ \A k \in 1..Len(items["A"]) :
              /\ After(k).id = Before(k).id
              /\ After(k).title = Before(k).title
              /\ After(k).added_at = Before(k).added_at
              /\ k \notin PlacesOf(i) => After(k) = Before(k)
              /\ k \in PlacesOf(i) => Describes(After(k), ShownVariant(i))]_vars

\* C24 (witness): a change of an option has applied the variant M/Blue to an
\* item that was saved with another variant.
C24_AnotherVariantSaved ==
  /\ last.op = "change" /\ last.writes > 0
  /\ \E k \in 1..Len(items["A"]) :
       /\ ItemsOf("A")[k].variant_id = Num("12")
       /\ ItemsOf("A")[k].image = Str(<<"https:", "//", "cdn/alpha-blue.jpg", "?", "width=", "600">>)
       /\ container["A"][k].variantId = <<"12">>
       /\ container["A"][k].refs # <<>>

\* The places in the list of tab A whose item this step has changed.
Changed == {k \in 1..Len(items["A"]) : After(k) # Before(k)}

\* The resolution of an item of pass p was marked for saving before this step.
MarkedIn(p) ==
  \E j \in 1..Len(passes["A"][p].slots) : passes["A"][p].slots[j].res.storageDirty

\* C25: an item is marked for saving, and the slot is written, only when a
\* stored field of an item has changed: a change of an option writes once
\* for every item whose fields it changed; a fetch that settles while its
\* pass waits for another marks its item exactly when the resolution changed
\* a field of it, and writes nothing; and the fetch that settles last writes
\* only when an item of the pass is marked or changed.
C25_SavedOnlyWhenChanged ==
  [][/\ \A i \in 1..Len(container["A"]) : \A index \in 1..2 : \A v \in PickedValues :
         OptionChange("A", i, index, v, "ok") =>
           /\ Changed \subseteq PlacesOf(i)
           /\ last'.writes = Cardinality(Changed)
     /\ \A p \in 1..Len(passes["A"]) : \A i \in PendingOf(p) : \A ok \in BOOLEAN :
         FetchDone("A", p, i, ok, "ok") =>
           IF LastOf(p, i)
             THEN last'.writes > 0 => (MarkedIn(p) \/ Changed # {})
             ELSE /\ last'.writes = 0
                  /\ passes'["A"][p].slots[i].res.storageDirty = (i \in Changed)
                  /\ Changed \subseteq {i}]_vars

\* C25 (witness): a pass over two items whose stored fields are those of
\* their resolved variants has resolved both and has written nothing.
C25_ResolvedWithoutWrite ==
  /\ last.op = "fetch" /\ last.writes = 0 /\ passes["A"] = <<>>
  /\ Len(container["A"]) = 2
  /\ \A i \in 1..2 :
       /\ StateOf(ItemsOf("A")[i]).present
       /\ ItemsOf("A")[i].variant_id = StateOf(ItemsOf("A")[i]).variantId
  /\ storage = JsonStringify(ItemsOf("A"))

\* The URL of item is the URL of the product with one parameter, the id of
\* the variant of the item.
OneParameter(item) ==
  /\ item.url = Str(<<"/products/", "alpha", "?", "variant=">> \o JsString(item.variant_id).v)
  /\ Cardinality({n \in 1..Len(item.url.v) : item.url.v[n] \in {"?", "&"}}) = 1

\* The place in the list of tab A of the item of slot i of pass p.
SlotPlace(p, i) == CHOOSE k \in 1..Len(items["A"]) : items["A"][k] = passes["A"][p].snap[i]

\* C26: the URL of an item that a pass has resolved, and of an item that a
\* selection was applied to, is the URL of the product with one query
\* parameter that carries the id of the variant of the item, whatever the
\* query of the URL it was stored with and however many resolutions and
\* selections went before.
C26_OneVariantParameter ==
  [][/\ \A i \in 1..Len(container["A"]) : \A index \in 1..2 : \A v \in PickedValues :
         OptionChange("A", i, index, v, "ok") =>
           \A k \in PlacesOf(i) :
             OneParameter(After(k)) /\ After(k).variant_id = ShownVariant(i).id
     /\ \A p \in 1..Len(passes["A"]) : \A i \in PendingOf(p) :
         FetchDone("A", p, i, TRUE, "ok") =>
           /\ OneParameter(After(SlotPlace(p, i)))
           /\ \A k \in Changed : OneParameter(After(k))]_vars

\* C26 (witness): the item that was stored with the query ref=mail and with
\* the variant 12 has the URL of the variant 11 after a change of an option.
C26_QueryRebuilt ==
  /\ last.op = "change"
  /\ \E k \in 1..Len(items["A"]) :
       /\ ItemsOf("A")[k].id = Str(<<"2">>)
       /\ ItemsOf("A")[k].url = Str(<<"/products/", "alpha", "?", "variant=", "11">>)

\* C27: the flag shouldInitVariantPicker of a render result is true only for
\* an item with a resolved variant that is available and of a product with
\* several options: it is false without catalog data, for a product without
\* variants, for a variant that is unavailable, and for a product with no
\* more than one option.
C27_PickerOnlyForSeveralOptions ==
  trial.op = "prepare" =>
    /\ trial.result.shouldInitVariantPicker =>
         /\ trial.productData.present
         /\ trial.result.selectedVariant.present
         /\ trial.result.selectedVariant.available
         /\ Len(trial.productData.options) > 1
    /\ ~trial.productData.present => ~trial.result.shouldInitVariantPicker
    /\ trial.productData.variants = <<>> => ~trial.result.shouldInitVariantPicker
    /\ (trial.result.selectedVariant.present /\ ~trial.result.selectedVariant.available)
         => ~trial.result.shouldInitVariantPicker
    /\ Len(trial.productData.options) <= 1 => ~trial.result.shouldInitVariantPicker

\* C27 (amended): the flag shouldInitVariantPicker of a render result is true
\* only for an item with a resolved variant that is available: it is false
\* without catalog data, for a product without variants, and for a variant
\* that is unavailable.
C27_PickerOnlyForAvailableVariant ==
  trial.op = "prepare" =>
    /\ trial.result.shouldInitVariantPicker =>
         /\ trial.productData.present
         /\ trial.result.selectedVariant.present
         /\ trial.result.selectedVariant.available
    /\ ~trial.productData.present => ~trial.result.shouldInitVariantPicker
    /\ trial.productData.variants = <<>> => ~trial.result.shouldInitVariantPicker
    /\ (trial.result.selectedVariant.present /\ ~trial.result.selectedVariant.available)
         => ~trial.result.shouldInitVariantPicker

\* C27 (witness): the flag is true for an item of a product with one option,
\* and the markup of the item holds the select of the option.
C27_PickerForOneOption ==
  /\ trial.op = "prepare"
  /\ trial.result.shouldInitVariantPicker
  /\ Len(trial.productData.options) = 1
  /\ Len(trial.result.html.selects) = 1
  /\ Len(trial.productData.variants) = 2

\* The sources that the arguments of a call offer at each level of the
\* precedence: the image of the selected variant, the images of the other
\* variants, the featured media, the featured image, the other images of
\* the product, and the stored image.
OwnImage(in) ==
  IF ~in.selectedVariant.present THEN <<>>
  ELSE IF in.selectedVariant.featuredImage # <<>> THEN in.selectedVariant.featuredImage
  ELSE MediaOf(in.productData.variantMedia, in.selectedVariant.id.v)

OfferedAt(in, level) ==
  CASE level = 1 -> {OwnImage(in)} \ {<<>>}
    [] level = 2 ->
         {in.productData.variantMedia[n].src : n \in
            {m \in 1..Len(in.productData.variantMedia) :
               ~in.selectedVariant.present
                 \/ in.productData.variantMedia[m].variantId # in.selectedVariant.id.v}}
    [] level = 3 -> {in.productData.featuredMedia} \ {<<>>}
    [] level = 4 -> {in.productData.featuredImage} \ {<<>>}
    [] level = 5 -> {in.productData.images[n] : n \in 1..Len(in.productData.images)}
    [] level = 6 -> IF in.fallbackImage.t = "string" THEN {in.fallbackImage.v} ELSE {}

\* The image that a source names, whatever its protocol and its query.
ImageOf(src) == SplitQuery(IF Head(src) = "https:" THEN Tail(src) ELSE src)

\* The levels at which the image of the gallery entry is offered.
LevelsOf(in, entry) ==
  {level \in 1..6 : \E src \in OfferedAt(in, level) : ImageOf(src) = ImageOf(entry.src)}

\* C28: the gallery list holds the images that the product offers at the
\* levels 1 to 5, each at the place of the highest level that offers it and
\* in the order of the levels; the stored image is in the list only when the
\* levels 1 to 5 offer no image, and then it is the only entry.
C28_GalleryPrecedence ==
  trial.op = "collect" =>
    /\ \A n \in 1..Len(trial.images) : LevelsOf(trial.in, trial.images[n]) # {}
    /\ \A n \in 1..Len(trial.images), m \in 1..Len(trial.images) :
         n < m => Min(LevelsOf(trial.in, trial.images[n]))
                    <= Min(LevelsOf(trial.in, trial.images[m]))
    /\ \A level \in 1..5 : \A src \in OfferedAt(trial.in, level) :
         \E n \in 1..Len(trial.images) : ImageOf(trial.images[n].src) = ImageOf(src)
    /\ (\E level \in 1..5 : OfferedAt(trial.in, level) # {}) =>
         \A n \in 1..Len(trial.images) : LevelsOf(trial.in, trial.images[n]) # {6}
    /\ (\A level \in 1..5 : OfferedAt(trial.in, level) = {}) =>
         Len(trial.images) = Cardinality(OfferedAt(trial.in, 6))

\* C28 (witness): a list with an entry of each of the levels 1 to 5, for a
\* product that has a stored image too.
C28_AllLevels ==
  /\ trial.op = "collect"
  /\ trial.in.fallbackImage # Undefined
  /\ {Min(LevelsOf(trial.in, trial.images[n])) : n \in 1..Len(trial.images)} = 1..5

\* C29: when the selected variant has an image of its own, that image is
\* the first entry of the gallery list, whatever other images the product
\* has; the markup then shows the first entry alone when the setting
\* show_second_image_on_hover is off, and the first entry and at most one
\* more, the second entry, when it is on.
C29_VariantImageFirst ==
  /\ (trial.op \in {"collect", "build"} /\ OwnImage(trial.in) # <<>>) =>
       /\ trial.images # <<>>
       /\ ImageOf(trial.images[1].src) = ImageOf(OwnImage(trial.in))
       /\ trial.images[1].isSelectedVariant
  /\ (trial.op = "build" /\ OwnImage(trial.in) # <<>>) =>
       /\ Len(trial.html.slides) =
            IF trial.in.showSecondImageOnHover /\ Len(trial.images) > 1 THEN 2 ELSE 1
       /\ \A n \in 1..Len(trial.html.slides) :
            trial.html.slides[n].src = trial.images[n].src

\* C29 (witness): the image of the selected variant is the first of four
\* entries, and the markup shows two images.
C29_TwoOfFourShown ==
  /\ trial.op = "build"
  /\ OwnImage(trial.in) # <<>>
  /\ Len(trial.images) >= 4
  /\ Len(trial.html.slides) = 2

\* C30: no two entries of the gallery list name the same image once the
\* query is ignored, and the entry of an image has the source of the first
\* level that offers the image.
C30_NoImageTwice ==
  trial.op = "collect" =>
    /\ \A n \in 1..Len(trial.images), m \in 1..Len(trial.images) :
         SplitQuery(trial.images[n].src) = SplitQuery(trial.images[m].src) => n = m
    /\ \A n \in 1..Len(trial.images) :
         \E src \in OfferedAt(trial.in, Min(LevelsOf(trial.in, trial.images[n]))) :
           trial.images[n].src = normalizeImageUrlTo(Str(src), "832").v

\* C30 (witness): the product offers one image at three levels, with a
\* query at one of them, and the list holds it once.
C30_OfferedThrice ==
  /\ trial.op = "collect"
  /\ \E n \in 1..Len(trial.images) :
       /\ Cardinality(LevelsOf(trial.in, trial.images[n]) \ {6}) >= 3
       /\ \E level \in LevelsOf(trial.in, trial.images[n]) :
            ImageAv \in OfferedAt(trial.in, level)
  /\ Len(trial.images) >= 2

\* Tab t has handled every storage event sent to it, and none of its render
\* passes awaits a fetch.
Quiet(t) == queue[t] = <<>> /\ passes[t] = <<>>

\* C31: a tab that has handled every storage event sent to it holds the list
\* of the slot, in contents and order; so when two tabs have changed the list
\* at the same time and all events are delivered, both hold the list of the
\* slot, which is the list of the tab that wrote last.
C31_TabsConverge ==
  \A t \in Tabs : Quiet(t) => JsonStringify(ItemsOf(t)) = storage

\* C31 (witness): both tabs have changed the list before they handled the
\* event of the other: tab B has just handled the event of tab A's write and
\* holds the list of the slot, which tab A, whose event is still to come, does
\* not hold.
C31_ConcurrentWrites ==
  /\ last.op = "storage" /\ last.tab = "B"
  /\ Quiet("B") /\ queue["A"] # <<>>
  /\ JsonStringify(ItemsOf("A")) # storage
  /\ JsonStringify(ItemsOf("B")) = storage
  /\ ItemsOf("B") # <<>>

\* C33: in a tab that is the only writer of the slot and whose writes
\* succeed, the slot holds the list of the tab whenever none of its render
\* passes awaits a fetch: what a resolution or a selection has changed in
\* the fields of an item is in the slot.
C33_CorrectionsAreSaved ==
  passes["A"] = <<>> => storage = JsonStringify(ItemsOf("A"))

\* C33 (witness): the last fetch of a pass has settled, the resolution has
\* changed the record of an item, and the slot holds the changed record.
C33_ResolutionSaved ==
  /\ last.op = "fetch" /\ last.writes = 1 /\ ~last.failed
  /\ passes["A"] = <<>>
  /\ \E i \in 1..Len(items["A"]) : ItemsOf("A")[i].variant_id.t = "number"
  /\ storage = JsonStringify(ItemsOf("A"))

\* The ids of the items in the slot, and of the items tab t holds.
StoredIds == {JsString(loadFromStorage(storage).items[i].id).v :
                i \in 1..Len(loadFromStorage(storage).items)}
HeldIds(t) == {Ids(t)[i] : i \in 1..Len(Ids(t))}

\* The step is an add of the id by a click on its button.
AddedNow(id) ==
  /\ last'.op = "click" /\ last'.ret
  /\ \E t \in Tabs : last'.tab = t /\ id \notin HeldIds(t) /\ id \in HeldIds(t)'

\* C34: an item that is not in the slot comes into the slot only by an add
\* of it: a removed item does not come back by any other write.
C34_RemovedStaysRemoved ==
  [][\A id \in ButtonIds :
       (id \notin StoredIds /\ id \in StoredIds') => AddedNow(id)]_vars

\* C34 (amended): a tab does not write an item into the slot that neither
\* its list nor the slot holds, unless the step adds it: the save of a pass
\* that was in flight when the item was removed does not write it back.
C34_NotWrittenBackByItsTab ==
  [][\A t \in Tabs, id \in ButtonIds :
       (last'.tab = t /\ id \notin HeldIds(t) /\ id \notin StoredIds /\ id \in StoredIds')
         => AddedNow(id)]_vars

\* C34 (witness): the item of tab A was removed while the pass over it
\* awaited its fetch; the fetch has settled, the pass has placed the markup
\* of the item and has saved, and the slot holds the empty list.
C34_PassSavedWithoutItem ==
  /\ last.op = "fetch" /\ last.tab = "A" /\ last.writes = 1 /\ ~last.failed
  /\ items["A"] = <<>> /\ Len(container["A"]) = 1
  /\ storage = JsonStringify(<<>>)

\* What the storage listener of tab t does when the slot holds payload.
AnswerOf(t, payload) ==
  storageListener([View(t, "ok", 0) EXCEPT !.storage = payload], storageKey)

\* Tab t, which awaits no fetch, is about to handle a storage event and
\* answers it with a write that changes the slot; the other tab o, at rest,
\* answers the event of that write by writing back the list the slot holds
\* now.  Both passes run from the caches, so the two tabs are then where they
\* were and go on to answer each other.
AnswerEachOther(t, o) ==
  /\ queue[t] = <<storageKey>> /\ passes[t] = <<>> /\ Quiet(o)
  /\ AnswerOf(t, storage).writes > 0
  /\ AnswerOf(t, storage).passes = <<>>
  /\ AnswerOf(t, storage).storage # storage
  /\ AnswerOf(o, AnswerOf(t, storage).storage).writes > 0
  /\ AnswerOf(o, AnswerOf(t, storage).storage).passes = <<>>
  /\ AnswerOf(o, AnswerOf(t, storage).storage).storage = storage

\* C32: two tabs that show the saved-items view and are left alone by the
\* user stop writing the slot after finitely many storage events and passes,
\* also when their caches hold different data for a handle: they never reach
\* a state from which they save again and again in answer to each other.
C32_SyncTerminates ==
  \A t \in Tabs, o \in Tabs : t # o => ~AnswerEachOther(t, o)

\* The step is a pass of tab A over a list that the pass before it has
\* resolved and saved, run from the cache.
SecondPass ==
  /\ last.op \in {"fetch", "render"} /\ passes["A"] = <<>> /\ items["A"] # <<>>
  /\ last'.op = "render" /\ passes'["A"] = <<>>

\* C35: a second pass over a list that a pass has resolved and saved, with
\* the same catalog data, marks no item for re-save and writes nothing, and
\* leaves the fields of every item as they were.
C35_ResolutionIdempotent ==
  [][SecondPass => /\ last'.writes = 0 /\ storage' = storage
                   /\ ItemsOf("A")' = ItemsOf("A")]_vars

\* A second pass has run over a list of two items that the first pass
\* corrected from the catalog.
C35_SecondPassRan ==
  /\ last.op = "render" /\ last.renders = 1 /\ passes["A"] = <<>>
  /\ Len(items["A"]) = 2
  /\ \A h \in Handles : productCache["A"][h] # NoProductData
  /\ storage \notin {JsonStringify(list) : list \in AgainLists}

\* The values that the option selects of the element of the item at place k
\* show after this step.
ShownValues(k) ==
  [index \in 1..Len(container'["A"][k].selects) |-> container'["A"][k].selects[index].value]

\* The variant of the catalog with the id that item carries.
SavedVariant(item) ==
  SelectSeq(Catalog("alpha").variants, LAMBDA v : v.id = item.variant_id)

\* C36: after a change of an option has been handled and a variant applied
\* to an item, the option selects of that item show exactly the option values
\* of the applied variant, and the variant id saved on the item is the id of
\* that variant.
C36_SelectsShowSavedVariant ==
  [][\A i \in 1..Len(container["A"]) : \A index \in 1..2 : \A v \in PickedValues :
       OptionChange("A", i, index, v, "ok") =>
         \A k \in PlacesOf(i) :
           /\ Len(SavedVariant(After(k))) = 1
           /\ ShownValues(k) = SavedVariant(After(k))[1].options
           /\ storage' = JsonStringify(ItemsOf("A"))']_vars

\* The first slide of the gallery shows the picture that is saved on the
\* item; a gallery without slides goes with no saved image.
SamePicture ==
  IF trial.slides = <<>> THEN trial.imageUrl = EmptyStr
  ELSE /\ trial.slides[1].primary
       /\ ImageKey(trial.slides[1].src) = ImageKey(trial.imageUrl.v)

\* The selected variant has an image: its own, or its entry of variantMedia.
VariantHasImage ==
  SelectedVariantImage(trial.in.productData, trial.in.selectedVariant) # <<>>

\* C37 (as stated): for every resolved item the first image of the gallery
\* and the image that the resolution saves on the item are the same picture
\* (equal URLs up to the query), whichever of the variant's image, the
\* variant media, the featured media, the featured image and the images of
\* the product are present.
C37_PrimaryIsSavedImage == trial.op = "resolve" => SamePicture

\* C37 (amended): the two are the same picture when the resolved variant has
\* an image (of its own or in the variant media) or no image is associated
\* with another variant.
C37_PrimaryIsSavedImageOfVariant ==
  (trial.op = "resolve"
     /\ (VariantHasImage
           \/ \A n \in 1..Len(trial.in.productData.variantMedia) :
                trial.in.productData.variantMedia[n].src = <<>>))
    => SamePicture

\* C37 (witness): the variant has no image of its own but an entry of the
\* variant media; the product has another featured media; the gallery starts
\* with the picture of the variant media, which is saved on the item.
C37_VariantMediaFirst ==
  /\ trial.op = "resolve"
  /\ trial.in.selectedVariant.featuredImage = <<>>
  /\ MediaOf(trial.in.productData.variantMedia, <<"1">>) = ImageB
  /\ trial.in.productData.featuredMedia = ImageD
  /\ Len(trial.in.productData.variantMedia) = 2
  /\ trial.imageUrl = Str(<<"https:">> \o ImageB \o <<"?", "width=", "600">>)
  /\ trial.slides[1].src = <<"https:">> \o ImageB \o <<"?", "width=", "832">>

\* The positions of the catalog variants whose id is the stored variant id.
StoredAt ==
  {k \in 1..Len(trial.productData.variants) :
     JsString(trial.productData.variants[k].id) = JsString(trial.item.variant_id)}

\* The positions of the catalog variants that are in stock.
InStockAt ==
  {k \in 1..Len(trial.productData.variants) : trial.productData.variants[k].available}

\* C38: at render time the resolved variant is the catalog variant with the
\* stored variant id when there is one, sold out or not; otherwise the first
\* variant in stock in catalog order; otherwise the first variant.  An item
\* of a product without variants gets no resolved variant and keeps its
\* stored fields.
C38_ResolvedVariant ==
  trial.op = "prepare" =>
    IF trial.productData.variants = <<>>
      THEN ~trial.result.selectedVariant.present /\ trial.after = trial.item
    ELSE IF StoredAt # {}
      THEN \E k \in StoredAt : trial.result.selectedVariant = trial.productData.variants[k]
    ELSE IF InStockAt # {}
      THEN trial.result.selectedVariant = trial.productData.variants[Min(InStockAt)]
    ELSE trial.result.selectedVariant = trial.productData.variants[1]

\* C38 (witness): the item carries the id of the second variant, which is
\* sold out, and the first variant is in stock: the second one is resolved
\* and the item is saved as unavailable.
C38_SoldOutVariantKept ==
  /\ trial.op = "prepare"
  /\ trial.item.variant_id = Num("2")
  /\ Len(trial.productData.variants) = 2
  /\ trial.productData.variants[1].available
  /\ ~trial.productData.variants[2].available
  /\ trial.result.selectedVariant.id = Num("2")
  /\ trial.after.available = Bool(FALSE)
====
